---- MODULE Spec2Model ----
(***************************************************************************)
(* Packet -> flow -> detection pipeline of network-ids-core.               *)
(*                                                                         *)
(* NetworkIDS::start spawns, per call, a packet source, a detection task,  *)
(* a stats-log task and a system sampler; the detection task spawns the    *)
(* flow reaper.  All of them share one SystemStats (behind one write lock),*)
(* one broadcast sender and one CancellationToken.  Each call of start is  *)
(* a "generation" g with its own queue, flow table and alert ring.         *)
(*                                                                         *)
(* A step of the model is one lock section or one channel operation of the *)
(* code.  A task is only stopped by the token where its future is pending  *)
(* (tokio::select! polls the branch futures; a branch that is running is   *)
(* not interrupted).                                                       *)
(***************************************************************************)
EXTENDS Integers, Sequences, FiniteSets, TLC

\* ------------------------------------------------------------------ bounds

\* Packets the sources generate in one run of Spec.
MaxPackets == 4
\* Packets the sources generate in one run of SpecLife (all generations together).
LifePackets == 2
\* Capacity of the packet channel in the model (mpsc::channel(10000) in start).
QueueCapacity == 1
\* Largest batch generate_traffic_batch returns in the model.
MaxBatch == 2
\* Packets the harness of SpecFlow feeds to one engine whose model never
\* scores above the alert level.
MaxFlowPackets == 11
\* Packets the harness of SpecFlow feeds to one engine whose model may give
\* any score.
MaxMlPackets == 6
\* Packets the harness of SpecTable feeds.
MaxTablePackets == 3
\* Packets fed to one flow to take the alert ring past its capacity.
MaxRingPackets == 102

\* Largest limit a reader passes to get_recent_alerts.
MaxLimit == 3

\* Packets of the run a reader watches.
MaxReadPackets == 4

\* Packets fed to an engine whose table is one flow short of, or at, a
\* multiple of GlobalAnalysisEvery.
MaxHundredPackets == 1

\* Frames the capture device hands to the live source, and how many of them
\* decode.
MaxLiveFrames == 2
MaxLivePackets == 2

\* Packets fed to an engine whose top-talkers list is near its limit.
MaxTalkerPackets == 2

\* Shards of the flow table (DashMap) in the model.
MaxShards == 2

\* Calls of predict in one run of SpecMl.
MaxPredictions == 3

\* Calls of add_training_example in one run of SpecTraining.
MaxExamples == 3

\* Where the clock of SpecTable stops, in seconds.
MaxClock == 302
\* Most destination ports one source of SpecRules has flows to.
MaxScanPorts == 21

\* -------------------------------------------------------- program constants

MinBatch == 2
SynThreshold == 10
MlMinPackets == 5
RingSize == 100
GlobalAnalysisEvery == 100
MAX_ERRORS == 100
YieldEvery == 100
\* AlertThresholds::default, max_alerts_per_minute.
max_alerts_per_minute == 10
\* MLEngine: the model's input size, the cap of the training buffer and what
\* is drained past it.
InputSize == 20
TrainingCap == 10000
TrainingDrain == 1000
PortScanMinPorts == 5
FlowTimeout == 300
TopTalkersMax == 20
TopTalkersKeep == 10

MlAlertScore == 700
MlHighScore == 900
MlMediumScore == 800
SuspiciousConfidence == 600

\* One generation of tasks per call of start; the environment calls it at most twice.
Generations == {1, 2}

NoPacket == [id |-> 0]

Severities == {"Low", "Medium", "High", "Critical"}

\* ----------------------------------------------------------------- packets

\* ParsedPacket values (id is filled in at creation; None ports are written
\* -1): the SYN+FIN packet of generate_suspicious_traffic, a SYN packet of
\* generate_traffic_batch, and a FIN packet as parse_ipv4_packet gives them.
PktSynFin ==
    [src_ip |-> "198.51.100.1", src_port |-> 44444, dst_ip |-> "192.168.1.2",
     dst_port |-> 80, protocol |-> "TCP", size |-> 64, flags |-> <<"SYN", "FIN">>]

PktSyn ==
    [src_ip |-> "203.0.113.7", src_port |-> 40000, dst_ip |-> "10.0.0.5",
     dst_port |-> 22, protocol |-> "TCP", size |-> 72, flags |-> <<"SYN">>]

PktFin ==
    [src_ip |-> "203.0.113.7", src_port |-> 40000, dst_ip |-> "10.0.0.5",
     dst_port |-> 22, protocol |-> "TCP", size |-> 80, flags |-> <<"FIN">>]

\* The answer to PktSyn: the endpoints swapped.
PktRev ==
    [src_ip |-> "10.0.0.5", src_port |-> 22, dst_ip |-> "203.0.113.7",
     dst_port |-> 40000, protocol |-> "TCP", size |-> 90, flags |-> <<"SYN", "ACK">>]

\* What generate_traffic_batch / generate_suspicious_traffic draw from.
SimPackets == {PktSynFin, PktSyn}

\* What the harness of SpecFlow feeds: one 5-tuple, SYN-only and FIN-only
\* packets.
FlowPackets == {PktSyn, PktFin}

\* What the harness of SpecTable feeds: one 5-tuple in both directions.
TablePackets == {PktSyn, PktFin, PktRev}

\* How far the clock of SpecTable moves in one step, in seconds.
ClockSteps == {150, 151}

WithId(p, i) ==
    [id |-> i, src_ip |-> p.src_ip, src_port |-> p.src_port, dst_ip |-> p.dst_ip,
     dst_port |-> p.dst_port, protocol |-> p.protocol, size |-> p.size,
     flags |-> p.flags]

\* ------------------------------------------------------------ pure helpers

RECURSIVE SumSeq(_)
SumSeq(s) == IF s = <<>> THEN 0 ELSE Head(s) + SumSeq(Tail(s))

Contains(s, x) == \E i \in 1..Len(s) : s[i] = x

CountOf(s, x) == Cardinality({i \in 1..Len(s) : s[i] = x})

\* A variant that keys a flow by its two endpoints in either direction.
FlowId_undirected(p) ==
    <<{<<p.src_ip, p.src_port>>, <<p.dst_ip, p.dst_port>>}, p.protocol>>

\* format!("{}:{:?}-{}:{:?}-{}", src_ip, src_port, dst_ip, dst_port, protocol)
FlowId(p) == <<p.src_ip, p.src_port, p.dst_ip, p.dst_port, p.protocol>>

\* ------------------------------------------------------------- f32 arithmetic

\* An f32 is m * 2^e with m = 0 or 2^23 <= |m| < 2^24: IEEE 754 binary32
\* without its subnormals, infinities and NaN, which the statistics of the
\* model never meet.  Every operation rounds to nearest, ties to even.
RECURSIVE Pow2(_)
Pow2(k) == IF k = 0 THEN 1 ELSE 2 * Pow2(k - 1)

RECURSIVE BitLen(_)
BitLen(n) == IF n = 0 THEN 0 ELSE 1 + BitLen(n \div 2)

Abs(n) == IF n < 0 THEN 0 - n ELSE n

F32Zero == [m |-> 0, e |-> 0]

\* The f32 nearest to sign * (n + s) * 2^e, where 0 <= s < 1 and sticky tells
\* whether s > 0.
F32Round(sign, n, e, sticky) ==
    IF n = 0 THEN F32Zero
    ELSE IF BitLen(n) <= 24
    THEN [m |-> sign * n * Pow2(24 - BitLen(n)), e |-> e - (24 - BitLen(n))]
    ELSE LET sh == BitLen(n) - 24
             q == n \div Pow2(sh)
             r == n % Pow2(sh)
             half == Pow2(sh - 1)
             up == r > half \/ (r = half /\ (sticky \/ q % 2 = 1))
             q2 == IF up THEN q + 1 ELSE q
         IN  IF q2 = Pow2(24) THEN [m |-> sign * Pow2(23), e |-> e + sh + 1]
             ELSE [m |-> sign * q2, e |-> e + sh]

Sign(n) == IF n < 0 THEN 0 - 1 ELSE 1

F32FromInt(n) == F32Round(Sign(n), Abs(n), 0, FALSE)

F32Neg(a) == [m |-> 0 - a.m, e |-> a.e]

\* x + y for |x| >= |y| in exponent: three guard bits and a sticky bit.
F32AddOrdered(x, y) ==
    LET d == IF x.e - y.e > 28 THEN 28 ELSE x.e - y.e
        A == Abs(x.m) * 8
        B == (Abs(y.m) * 8) \div Pow2(d)
        st == (Abs(y.m) * 8) % Pow2(d) # 0
    IN  IF Sign(x.m) = Sign(y.m)
        THEN F32Round(Sign(x.m), A + B, x.e - 3, st)
        ELSE IF A >= B
        THEN F32Round(Sign(x.m), A - B - (IF st THEN 1 ELSE 0), x.e - 3, st)
        ELSE F32Round(Sign(y.m), B - A, x.e - 3, FALSE)

F32Add(a, b) ==
    IF a.m = 0 THEN b
    ELSE IF b.m = 0 THEN a
    ELSE IF a.e >= b.e THEN F32AddOrdered(a, b) ELSE F32AddOrdered(b, a)

F32Sub(a, b) == F32Add(a, F32Neg(b))

\* The 48-bit product of two mantissas, from 12-bit halves.
F32Mul(a, b) ==
    IF a.m = 0 \/ b.m = 0 THEN F32Zero
    ELSE LET ah == Abs(a.m) \div 4096
             al == Abs(a.m) % 4096
             bh == Abs(b.m) \div 4096
             bl == Abs(b.m) % 4096
             mid == ah * bl + al * bh
             low == (mid % 4096) * 4096 + al * bl
             hi == ah * bh + mid \div 4096 + low \div Pow2(24)
             lo == low % Pow2(24)
         IN  F32Round(Sign(a.m) * Sign(b.m), hi * 4 + lo \div Pow2(22),
                      a.e + b.e + 22, lo % Pow2(22) # 0)

\* Long division: `bits` more bits of the quotient q, with remainder r.
RECURSIVE DivBits(_, _, _, _)
DivBits(q, r, d, bits) ==
    IF bits = 0 THEN <<q, r>>
    ELSE IF 2 * r >= d THEN DivBits(2 * q + 1, 2 * r - d, d, bits - 1)
    ELSE DivBits(2 * q, 2 * r, d, bits - 1)

F32Div(a, b) ==
    IF a.m = 0 THEN F32Zero
    ELSE LET qr == DivBits(Abs(a.m) \div Abs(b.m), Abs(a.m) % Abs(b.m), Abs(b.m), 26)
         IN  F32Round(Sign(a.m) * Sign(b.m), qr[1], a.e - b.e - 26, qr[2] # 0)

\* Square root digit by digit: the pairs of bits of x from pair i down, then
\* `more` pairs of zeros.
RECURSIVE SqrtBits(_, _, _, _, _)
SqrtBits(x, i, more, root, rem) ==
    IF i < 0 /\ more = 0 THEN <<root, rem>>
    ELSE LET r == rem * 4 + (IF i < 0 THEN 0 ELSE (x \div Pow2(2 * i)) % 4)
             i2 == IF i < 0 THEN i ELSE i - 1
             m2 == IF i < 0 THEN more - 1 ELSE more
         IN  IF r >= 4 * root + 1
             THEN SqrtBits(x, i2, m2, 2 * root + 1, r - (4 * root + 1))
             ELSE SqrtBits(x, i2, m2, 2 * root, r)

F32Sqrt(a) ==
    IF a.m = 0 THEN F32Zero
    ELSE LET x == IF a.e % 2 = 0 THEN a.m ELSE 2 * a.m
             e0 == IF a.e % 2 = 0 THEN a.e ELSE a.e - 1
             rr == SqrtBits(x, 12, 13, 0, 0)
         IN  F32Round(1, rr[1], e0 \div 2 - 13, rr[2] # 0)

F32Less(a, b) ==
    IF Sign(a.m) # Sign(b.m) \/ a.m = 0 \/ b.m = 0 THEN a.m < b.m
    ELSE IF a.e # b.e THEN (IF a.m > 0 THEN a.e < b.e ELSE a.e > b.e)
    ELSE a.m < b.m

\* ------------------------------------------------------------ NetworkFlow

NetworkFlow_new(p, t) ==
    [flow_id |-> FlowId(p), src_ip |-> p.src_ip, dst_ip |-> p.dst_ip,
     src_port |-> p.src_port, dst_port |-> p.dst_port, protocol |-> p.protocol,
     packets |-> <<p>>, start_time |-> t, last_seen |-> t,
     byte_count |-> p.size, flags_seen |-> p.flags]

\* A variant that pushes every flag of the packet.
MergeFlags_append(seen, flags) == seen \o flags

\* "Merge unique flags": push each flag of the packet that is not yet there.
RECURSIVE MergeFlags(_, _)
MergeFlags(seen, flags) ==
    IF flags = <<>> THEN seen
    ELSE MergeFlags(IF Contains(seen, Head(flags)) THEN seen
                    ELSE Append(seen, Head(flags)),
                    Tail(flags))

\* A variant that forgets the byte count.
add_packet_no_bytes(flow, p, t) ==
    [flow EXCEPT !.packets = Append(@, p),
                 !.last_seen = t,
                 !.flags_seen = MergeFlags(@, p.flags)]

\* add_packet putting the new packet at the head of the list.
add_packet_front(flow, p, t) ==
    [flow EXCEPT !.packets = <<p>> \o @,
                 !.byte_count = @ + p.size,
                 !.last_seen = t,
                 !.flags_seen = MergeFlags(@, p.flags)]

add_packet(flow, p, t) ==
    [flow EXCEPT !.packets = Append(@, p),
                 !.last_seen = t,
                 !.byte_count = @ + p.size,
                 !.flags_seen = MergeFlags(@, p.flags)]

\* The ids of all packets of a flow but its newest.
PacketIds_but_newest(flow) == [i \in 1..(Len(flow.packets) - 1) |-> flow.packets[i].id]

\* flow.packets.iter().map(|p| p.id).collect()
PacketIds(flow) == [i \in 1..Len(flow.packets) |-> flow.packets[i].id]

PortBag(port) == IF port = -1 THEN <<>> ELSE <<port>>

\* -------------------------------------------------------------- ThreatPatterns

\* The SYN count is taken over flags_seen, as the code takes it.
is_suspicious(flow) ==
    \/ Contains(flow.flags_seen, "SYN") /\ Contains(flow.flags_seen, "FIN")
    \/ CountOf(flow.flags_seen, "SYN") > SynThreshold

\* Some(alert) is <<alert>>, None is <<>>.
detect_suspicious_flags(flow) ==
    IF is_suspicious(flow)
    THEN << [threat_type |-> "Suspicious", severity |-> "Medium", confidence |-> SuspiciousConfidence,
             source_ip |-> flow.src_ip, target_ip |-> flow.dst_ip,
             affected_ports |-> PortBag(flow.dst_port),
             raw_packets |-> PacketIds(flow)] >>
    ELSE <<>>

\* create_ml_alert: severity ladder on the anomaly score (per mille).
MlSeverity(score) ==
    IF score > MlHighScore THEN "High"
    ELSE IF score > MlMediumScore THEN "Medium" ELSE "Low"

create_ml_alert(flow, score) ==
    [threat_type |-> "Anomalous", severity |-> MlSeverity(score), confidence |-> score,
     source_ip |-> flow.src_ip, target_ip |-> flow.dst_ip,
     affected_ports |-> PortBag(flow.dst_port),
     raw_packets |-> PacketIds(flow)]

\* Port scan: sources with at least PortScanMinPorts distinct destination
\* ports among the flows of the snapshot.  The code walks a HashMap and
\* returns the first such source it meets, so any of them may be named.
PortsOf(snapshot, ip) ==
    {f.dst_port : f \in {x \in snapshot : x.src_ip = ip /\ x.dst_port # -1}}

\* A variant whose ladder takes its limits inclusively.
PortScanSeverity_inclusive(n) ==
    IF n >= 20 THEN "High" ELSE IF n >= 10 THEN "Medium" ELSE "Low"

PortScanSeverity(n) ==
    IF n > 20 THEN "High" ELSE IF n > 10 THEN "Medium" ELSE "Low"

Min(a, b) == IF a < b THEN a ELSE b

RECURSIVE SeqOfSet(_)
SeqOfSet(S) ==
    IF S = {} THEN <<>>
    ELSE LET x == CHOOSE y \in S : TRUE IN <<x>> \o SeqOfSet(S \ {x})

RECURSIVE ConcatAll(_)
ConcatAll(ss) == IF ss = <<>> THEN <<>> ELSE Head(ss) \o ConcatAll(Tail(ss))

detect_port_scan(snapshot) ==
    { [threat_type |-> "PortScan",
       severity |-> PortScanSeverity(Cardinality(PortsOf(snapshot, ip))),
       confidence |-> Min((Cardinality(PortsOf(snapshot, ip)) * 1000) \div 100, 1000),
       source_ip |-> ip, target_ip |-> first.dst_ip,
       affected_ports |->
           [i \in 1..Cardinality({x \in snapshot : x.src_ip = ip /\ x.dst_port # -1}) |->
               SeqOfSet({x \in snapshot : x.src_ip = ip /\ x.dst_port # -1})[i].dst_port],
       raw_packets |->
           ConcatAll([i \in 1..Cardinality({x \in snapshot : x.src_ip = ip}) |->
               PacketIds(SeqOfSet({x \in snapshot : x.src_ip = ip})[i])])] :
      ip \in {i \in {f.src_ip : f \in snapshot} :
                 Cardinality(PortsOf(snapshot, i)) >= PortScanMinPorts},
      first \in snapshot }

\* DDoS: destinations whose summed packets or bytes pass the limits.
DstPackets(snapshot, ip) ==
    SumSeq([i \in 1..Cardinality({x \in snapshot : x.dst_ip = ip}) |->
        Len(SeqOfSet({x \in snapshot : x.dst_ip = ip})[i].packets)])

DstBytes(snapshot, ip) ==
    SumSeq([i \in 1..Cardinality({x \in snapshot : x.dst_ip = ip}) |->
        SeqOfSet({x \in snapshot : x.dst_ip = ip})[i].byte_count])

\* A variant whose ladder takes its limits inclusively.
DDoSSeverity_inclusive(pkts, bytes) ==
    IF pkts >= 5000 \/ bytes >= 50000000 THEN "Critical"
    ELSE IF pkts >= 2000 \/ bytes >= 20000000 THEN "High" ELSE "Medium"

DDoSSeverity(pkts, bytes) ==
    IF pkts > 5000 \/ bytes > 50000000 THEN "Critical"
    ELSE IF pkts > 2000 \/ bytes > 20000000 THEN "High" ELSE "Medium"

detect_ddos(snapshot) ==
    { [threat_type |-> "DDoS",
       severity |-> DDoSSeverity(DstPackets(snapshot, ip), DstBytes(snapshot, ip)),
       confidence |-> (Min(DstPackets(snapshot, ip) \div 10, 1000)
                       + Min(DstBytes(snapshot, ip) \div 100000, 1000)) \div 2,
       source_ip |-> first.src_ip, target_ip |-> ip,
       affected_ports |->
           SeqOfSet({f.dst_port : f \in {x \in snapshot : x.dst_ip = ip /\ x.dst_port # -1}}),
       raw_packets |->
           ConcatAll([i \in 1..Cardinality({x \in snapshot : x.dst_ip = ip}) |->
               PacketIds(SeqOfSet({x \in snapshot : x.dst_ip = ip})[i])])] :
      ip \in {i \in {f.dst_ip : f \in snapshot} :
                 DstPackets(snapshot, i) > 1000 \/ DstBytes(snapshot, i) > 10000000},
      first \in snapshot }

\* Option<ThreatAlert> of a rule as a set of sequences: <<>> or <<alert>>.
AsOption(alerts) == IF alerts = {} THEN {<<>>} ELSE {<<a>> : a \in alerts}

\* ----------------------------------------------------------------- SystemStats

SystemStats_new ==
    [packets_processed |-> 0, bytes_processed |-> 0, threats_detected |-> 0,
     processing_rate |-> 0, memory_usage |-> 0, cpu_usage |-> 0, active_flows |-> 0,
     alert_counts |-> [s \in Severities |-> 0],
     protocol_distribution |-> [p \in {"TCP", "UDP", "ICMP"} |-> 0],
     top_talkers |-> <<>>,
     last_rate_calculation |-> 0, last_packet_count |-> 0]

update_packet_stats(s, packet_size, t) ==
    LET counted == [s EXCEPT !.packets_processed = @ + 1,
                             !.bytes_processed = @ + packet_size]
        elapsed == t - s.last_rate_calculation
    IN  IF elapsed >= 1
        THEN [counted EXCEPT
                 !.processing_rate =
                     (counted.packets_processed - s.last_packet_count) \div elapsed,
                 !.last_rate_calculation = t,
                 !.last_packet_count = counted.packets_processed]
        ELSE counted

count_protocol(s, protocol) ==
    [s EXCEPT !.protocol_distribution[protocol] = @ + 1]

\* A variant that forgets the severity bucket.
increment_threat_count_total_only(s, severity) ==
    [s EXCEPT !.threats_detected = @ + 1]

increment_threat_count(s, severity) ==
    [s EXCEPT !.threats_detected = @ + 1,
              !.alert_counts[severity] = @ + 1]

\* top_talkers bookkeeping of process_single_packet.
RECURSIVE BumpTalkers(_, _, _, _)
BumpTalkers(tt, src, dst, size) ==
    IF tt = <<>> THEN <<>>
    ELSE LET e == Head(tt)
             e2 == IF e[1] = src \/ e[1] = dst THEN <<e[1], e[2] + size>> ELSE e
         IN  <<e2>> \o BumpTalkers(Tail(tt), src, dst, size)

HasTalker(tt, ip) == \E i \in 1..Len(tt) : tt[i][1] = ip

\* dst_found is only set on entries that are not the source.
PushTalkers(tt, bumped, src, dst, size) ==
    LET withSrc == IF HasTalker(tt, src) THEN bumped ELSE Append(bumped, <<src, size>>)
    IN  IF ~(dst # src /\ HasTalker(tt, dst)) /\ dst # src
        THEN Append(withSrc, <<dst, size>>)
        ELSE withSrc

\* Stable sort by bytes, descending (sort_by with b.1.cmp(&a.1)).
RECURSIVE InsertDesc(_, _)
InsertDesc(sorted, e) ==
    IF sorted = <<>> THEN <<e>>
    ELSE IF Head(sorted)[2] >= e[2] THEN <<Head(sorted)>> \o InsertDesc(Tail(sorted), e)
    ELSE <<e>> \o sorted

RECURSIVE SortDesc(_)
SortDesc(tt) ==
    IF tt = <<>> THEN <<>> ELSE InsertDesc(SortDesc(SubSeq(tt, 1, Len(tt) - 1)), tt[Len(tt)])

\* A variant that truncates without sorting first.
update_top_talkers_unsorted(tt, p) ==
    LET pushed == PushTalkers(tt, BumpTalkers(tt, p.src_ip, p.dst_ip, p.size),
                              p.src_ip, p.dst_ip, p.size)
    IN  IF Len(pushed) > TopTalkersMax
        THEN SubSeq(pushed, 1, TopTalkersKeep)
        ELSE pushed

update_top_talkers(tt, p) ==
    LET pushed == PushTalkers(tt, BumpTalkers(tt, p.src_ip, p.dst_ip, p.size),
                              p.src_ip, p.dst_ip, p.size)
    IN  IF Len(pushed) > TopTalkersMax
        THEN SubSeq(SortDesc(pushed), 1, TopTalkersKeep)
        ELSE pushed

\* -------------------------------------------------------------------- MLEngine

\* The literal 1e-8 as an f32.
StdFloor == [m |-> 11258999, e |-> 0 - 50]

NoMap == [i \in {} |-> F32Zero]

\* FeatureStatistics::default; the maps are keyed by the feature's index.
FeatureStatistics_default ==
    [means |-> NoMap, stds |-> NoMap, mins |-> NoMap, maxs |-> NoMap, update_count |-> 0]

\* normalize_features without the early return, filling a dimension that has
\* no statistics with zero.
normalize_features_unguarded(fs, features) ==
    [i \in 1..Len(features) |->
        IF i \in DOMAIN fs.means /\ i \in DOMAIN fs.stds
        THEN IF F32Less(StdFloor, fs.stds[i])
             THEN F32Div(F32Sub(features[i], fs.means[i]), fs.stds[i])
             ELSE F32Zero
        ELSE F32Zero]

\* normalize_features: the input as it is before the first update,
\* (value - mean) / std afterwards, 0 where std is not above 1e-8.
normalize_features(fs, features) ==
    IF fs.update_count = 0 THEN features
    ELSE [i \in 1..Len(features) |->
             IF i \in DOMAIN fs.means /\ i \in DOMAIN fs.stds
             THEN IF F32Less(StdFloor, fs.stds[i])
                  THEN F32Div(F32Sub(features[i], fs.means[i]), fs.stds[i])
                  ELSE F32Zero
             ELSE features[i]]

\* A running mean that adds the whole difference, not its count-th part.
new_mean_undivided(old_mean, value, count) ==
    F32Add(old_mean, F32Sub(value, old_mean))

\* new_mean: old_mean + (value - old_mean) / count as f32.
new_mean_of(old_mean, value, count) ==
    F32Add(old_mean, F32Div(F32Sub(value, old_mean), F32FromInt(count)))

\* One turn of the loop of update_statistics: Welford's step on the mean and
\* on M2, which is taken back from the stored std, then min and max.
update_dimension(fs, i, value) ==
    LET count == fs.update_count + 1
        old_mean == IF i \in DOMAIN fs.means THEN fs.means[i] ELSE F32Zero
        new_mean == new_mean_of(old_mean, value, count)
        old_std == IF i \in DOMAIN fs.stds THEN fs.stds[i] ELSE F32Zero
        old_m2 == IF count > 1
                  THEN F32Mul(F32Mul(old_std, old_std), F32FromInt(count - 1))
                  ELSE F32Zero
        new_m2 == F32Add(old_m2, F32Mul(F32Sub(value, old_mean), F32Sub(value, new_mean)))
        current_min == IF i \in DOMAIN fs.mins THEN fs.mins[i] ELSE value
        current_max == IF i \in DOMAIN fs.maxs THEN fs.maxs[i] ELSE value
        new_std == IF count > 1
                   THEN F32Sqrt(F32Div(new_m2, F32FromInt(count - 1)))
                   ELSE F32Zero
    IN  [mean |-> new_mean, std |-> new_std,
         min |-> IF F32Less(value, current_min) THEN value ELSE current_min,
         max |-> IF F32Less(current_max, value) THEN value ELSE current_max]

Put(map, keys, val(_)) ==
    [i \in DOMAIN map \cup keys |-> IF i \in keys THEN val(i) ELSE map[i]]

\* update_statistics: every dimension with the count before the call, then
\* update_count += 1.
update_statistics(fs, features) ==
    LET keys == 1..Len(features)
        mean(i) == update_dimension(fs, i, features[i]).mean
        std(i) == update_dimension(fs, i, features[i]).std
        min(i) == update_dimension(fs, i, features[i]).min
        max(i) == update_dimension(fs, i, features[i]).max
    IN  [means |-> Put(fs.means, keys, mean), stds |-> Put(fs.stds, keys, std),
         mins |-> Put(fs.mins, keys, min), maxs |-> Put(fs.maxs, keys, max),
         update_count |-> fs.update_count + 1]

\* input_data.resize(20, 0.0)
resize(v, n) == [i \in 1..n |-> IF i <= Len(v) THEN v[i] ELSE F32Zero]

\* A variant that removes the newest examples.
add_training_example_drop_newest(buffer, example) ==
    IF Len(buffer) + 1 > TrainingCap
    THEN SubSeq(Append(buffer, example), 1, Len(buffer) + 1 - TrainingDrain)
    ELSE Append(buffer, example)

\* add_training_example: push, then buffer.drain(0..1000) past TrainingCap.
add_training_example(buffer, example) ==
    IF Len(buffer) + 1 > TrainingCap
    THEN SubSeq(Append(buffer, example), TrainingDrain + 1, Len(buffer) + 1)
    ELSE Append(buffer, example)

\* MLEngine::new: no statistics, an empty buffer, no predict under way; `fed`
\* keeps the raw features of the predictions that succeeded.
MLEngine_new ==
    [feature_stats |-> FeatureStatistics_default, training_buffer |-> <<>>,
     pc |-> "idle", raw |-> <<>>, input |-> <<>>, score |-> 0, fed |-> <<>>]

\* ---------------------------------------------------------------------- locks

\* The locks of the pipeline: the RwLock of SystemStats, the RwLock of the
\* alert ring, and the shard locks of the flow table.
StatsLock == <<"stats", 0>>
RingLock == <<"ring", 0>>
ShardLock(i) == <<"shard", i>>
Shards == 1..MaxShards
LockNames == {StatsLock, RingLock} \cup {ShardLock(i) : i \in Shards}

LockTasks == {"detection", "reaper", "source", "sampler", "reader"}

Acquire(l, m) == [op |-> "acquire", lock |-> l, mode |-> m]
Release(l) == [op |-> "release", lock |-> l, mode |-> "none"]

\* n times the sequence ops.
RECURSIVE Repeat(_, _)
Repeat(ops, n) == IF n = 0 THEN <<>> ELSE ops \o Repeat(ops, n - 1)

\* DashMap::len and DashMap::iter: the read lock of one shard after the other.
RECURSIVE visit_shards(_)
visit_shards(i) ==
    IF i > MaxShards THEN <<>>
    ELSE <<Acquire(ShardLock(i), "read"), Release(ShardLock(i))>> \o visit_shards(i + 1)

\* The sections of process_single_packet that write SystemStats: the write
\* lock is held over active_flows.len().
stats_section_locks ==
    <<Acquire(StatsLock, "write")>> \o visit_shards(1) \o <<Release(StatsLock)>>

\* entry(flow_id): the write lock of the flow's shard.
upsert_locks(k) == <<Acquire(ShardLock(k), "write"), Release(ShardLock(k))>>

\* send_alert: the stats write lock, then the ring write lock, one at a time.
send_alert_locks ==
    <<Acquire(StatsLock, "write"), Release(StatsLock),
      Acquire(RingLock, "write"), Release(RingLock)>>

\* The per-flow stage: active_flows.get holds the read lock of the flow's shard
\* over the n alerts it sends.
flow_stage_locks(k, n) ==
    <<Acquire(ShardLock(k), "read")>> \o Repeat(send_alert_locks, n)
        \o <<Release(ShardLock(k))>>

\* active_flows.len() % 100, and run_global_analysis when it is 0: the flows
\* are cloned out of the table before any alert is sent.
global_stage_locks(runs, n) ==
    visit_shards(1)
        \o (IF runs THEN visit_shards(1) \o Repeat(send_alert_locks, n) ELSE <<>>)

\* update_or_create_flow, the second stats section and the per-flow stage, for
\* a flow in shard k.
flow_locks(k, flow_updated, n) ==
    upsert_locks(k) \o stats_section_locks
        \o (IF flow_updated THEN flow_stage_locks(k, n) ELSE <<>>)

\* process_single_packet, stage by stage: the first stats section, the flow,
\* the global stage.
process_single_packet_locks ==
    <<{stats_section_locks},
      {flow_locks(k, TRUE, n) : k \in Shards, n \in 0..2}
          \cup {flow_locks(k, FALSE, 0) : k \in Shards},
      {global_stage_locks(TRUE, m) : m \in 0..1} \cup {global_stage_locks(FALSE, 0)}>>

\* A cleanup that writes the flow count into SystemStats while it holds the
\* shard of the flow it removes.
cleanup_locks_counting(keys) ==
    visit_shards(1)
        \o ConcatAll([i \in 1..Len(keys) |->
               <<Acquire(ShardLock(keys[i]), "write"),
                 Acquire(StatsLock, "write"), Release(StatsLock),
                 Release(ShardLock(keys[i]))>>])

\* cleanup_expired_flows: iter over the table, then remove key by key.
cleanup_locks(keys) ==
    visit_shards(1)
        \o ConcatAll([i \in 1..Len(keys) |-> upsert_locks(keys[i])])

ReaperPrograms ==
    <<{cleanup_locks(keys) : keys \in {<<>>} \cup {<<k>> : k \in Shards}}>>

\* update_packet_stats in the source, cpu and memory in the sampler.
stats_write_locks == <<Acquire(StatsLock, "write"), Release(StatsLock)>>

\* get_stats.
stats_read_locks == <<Acquire(StatsLock, "read"), Release(StatsLock)>>

\* get_stats, get_recent_alerts, get_active_flows.
ReaderPrograms ==
    <<{stats_read_locks,
       <<Acquire(RingLock, "read"), Release(RingLock)>>,
       visit_shards(1)}>>

\* No lock held, no task in a program.
NoLocks ==
    [held |-> [l \in LockNames |-> {}],
     prog |-> [t \in LockTasks |-> <<>>],
     pc |-> [t \in LockTasks |-> 1],
     stage |-> [t \in LockTasks |-> 1]]

\* ---------------------------------------------------------------------- state

VARIABLES
    limits,         \* what the environment of this run does: calls of start, packets
    started,        \* calls of start that have returned on this handle
    cancelled,      \* shutdown_token
    now,            \* the clock, in seconds
    ml,             \* outcomes MLEngine::predict can give with this run's weights
    source,         \* per generation: the capture task
    detection,      \* per generation: the detection task
    monitor,        \* per generation: the 5 s stats-log task
    sampler,        \* per generation: the 2 s system sampler
    reaper,         \* per generation: the flow cleanup task
    queue,          \* per generation: mpsc channel of PacketData
    active_flows,   \* per generation: DashMap flow_id -> NetworkFlow
    recent_alerts,  \* per generation: VecDeque<ThreatAlert>
    stats,          \* the shared SystemStats
    published,      \* alerts handed to alert_sender.send, in order
    created,        \* packets the sources have been allowed to create
    submitted,      \* packets handed to try_send, in order
    dropped,        \* ids of the packets try_send refused
    returned,       \* what the last call of a reader gave its caller
    engine,         \* the MLEngine: feature statistics, training buffer, predict in progress
    locks           \* who holds which lock, and where each task is in its lock operations

vars == <<limits, returned, engine, locks, started, cancelled, now, ml, source, detection, monitor, sampler, reaper,
          queue, active_flows, recent_alerts, stats, published, created, submitted,
          dropped>>

\* MLEngine::predict: Err (-1) or a score in per mille.
PredictErr == -1

PredictOutcomes == {PredictErr, 500, 750, 850, 950}

\* The same with the scores at which create_ml_alert changes its answer.
ThresholdOutcomes == PredictOutcomes \cup {MlAlertScore, MlMediumScore, MlHighScore}

\* What the sampler reads from sysinfo.
CpuSamples == {50}
MemSamples == {2048}

\* error_count and packet_count are start_capture's locals; origin is
\* history: how start chose this source.
SourceIdle ==
    [pc |-> "none", left |-> 0, batch_end |-> 0, pkt |-> NoPacket, late |-> FALSE,
     total_sent |-> 0, total_dropped |-> 0, last_stats_update |-> 0,
     error_count |-> 0, packet_count |-> 0, origin |-> "none"]

\* `sent` is history: the threat types process_single_packet has passed to
\* alert_sender.send for the packet in hand.
DetectionIdle ==
    [pc |-> "none", pkt |-> NoPacket, flow_updated |-> FALSE, pending |-> <<>>,
     resume |-> "recv", late |-> FALSE, sent |-> <<>>, predict_err |-> FALSE]

ReaperIdle == [pc |-> "none", expired |-> <<>>]

\* No reader has a result in hand.
NoReturn == [call |-> "none"]

NoFlows == [k \in {} |-> 0]

InitCommon ==
    /\ started = 0
    /\ returned = NoReturn
    /\ locks = NoLocks
    /\ engine = MLEngine_new
    /\ cancelled = FALSE
    /\ now = 0
    /\ source = [g \in Generations |-> SourceIdle]
    /\ monitor = [g \in Generations |-> "none"]
    /\ sampler = [g \in Generations |-> "none"]
    /\ reaper = [g \in Generations |-> ReaperIdle]
    /\ queue = [g \in Generations |-> <<>>]
    /\ active_flows = [g \in Generations |-> NoFlows]
    /\ recent_alerts = [g \in Generations |-> <<>>]
    /\ stats = SystemStats_new
    /\ published = <<>>
    /\ created = 0
    /\ submitted = <<>>
    /\ dropped = {}

\* NetworkIDS::new: nothing is running.
Init ==
    /\ InitCommon
    /\ limits = [starts |-> 1, packets |-> MaxPackets]
    /\ ml = PredictOutcomes
    /\ detection = [g \in Generations |-> DetectionIdle]

\* ---------------------------------------------------------------- supervisor

\* start: no check of an earlier start; every call builds a new engine and
\* channel and spawns four tasks.  Without a capture device
\* PacketCapture::new fails and the simulated source is spawned.
SpawnAll(g) ==
    /\ source' = [source EXCEPT ![g].pc = "spawned"]
    /\ detection' = [detection EXCEPT ![g].pc = "spawned"]
    /\ monitor' = [monitor EXCEPT ![g] = "spawned"]
    /\ sampler' = [sampler EXCEPT ![g] = "spawned"]

\* A start that arms the handle again with a fresh token.
Start_fresh_token ==
    /\ started < limits.starts
    /\ \E use_simulation \in BOOLEAN, capture_ok \in {FALSE} :
          use_simulation \/ ~capture_ok
    /\ started' = started + 1
    /\ cancelled' = FALSE
    /\ SpawnAll(started + 1)
    /\ UNCHANGED <<limits, returned, engine, locks, now, ml, reaper, queue, active_flows,
                   recent_alerts, stats, published, created, submitted, dropped>>

Start ==
    /\ started < limits.starts
    /\ \E use_simulation \in BOOLEAN, capture_ok \in {FALSE} :
          use_simulation \/ ~capture_ok
    /\ started' = started + 1
    /\ SpawnAll(started + 1)
    /\ UNCHANGED <<limits, returned, engine, locks, cancelled, now, ml, reaper, queue, active_flows,
                   recent_alerts, stats, published, created, submitted, dropped>>

\* shutdown: cancels the token and returns; joins nothing.
Shutdown ==
    /\ cancelled' = TRUE
    /\ UNCHANGED <<limits, returned, engine, locks, started, now, ml, source, detection, monitor, sampler, reaper,
                   queue, active_flows, recent_alerts, stats, published, created,
                   submitted, dropped>>

\* ------------------------------------------------- SimulatedCapture task

\* A variant where the token is only looked at before the loop is entered.
SourceParkedBeforeLoop(g) == source[g].pc = "spawned"

\* Where the source future is pending: not yet polled, or in one of its sleeps.
SourceParked(g) == source[g].pc \in {"spawned", "sleep1", "sleep10"}

\* select!: the cancelled branch is ready; the task ends.
SourceExit(g) ==
    /\ SourceParked(g)
    /\ cancelled
    /\ source' = [source EXCEPT ![g].pc = "done"]
    /\ UNCHANGED <<limits, returned, engine, locks, started, cancelled, now, ml, detection, monitor, sampler, reaper,
                   queue, active_flows, recent_alerts, stats, published, created,
                   submitted, dropped>>

\* Top of the loop: generate_traffic_batch.  A poll that starts with the token
\* cancelled (late) ends the task at its next pending point.
SourceBatch(g) ==
    /\ source[g].pc \in {"spawned", "sleep10"}
    /\ ~source[g].late
    /\ \E n \in MinBatch..MaxBatch :
          /\ created + n <= limits.packets
          /\ created' = created + n
          /\ source' = [source EXCEPT ![g].pc = "stats", ![g].left = n,
                                      ![g].batch_end = created + n,
                                      ![g].late = cancelled]
    /\ UNCHANGED <<limits, returned, engine, locks, started, cancelled, now, ml, detection, monitor, sampler, reaper,
                   queue, active_flows, recent_alerts, stats, published, submitted,
                   dropped>>

\* "Update statistics directly": the write section before try_send.
SourceCount(g) ==
    /\ source[g].pc = "stats"
    /\ \E p \in SimPackets :
          /\ source' = [source EXCEPT
                 ![g].pc = "send",
                 ![g].pkt = WithId(p, source[g].batch_end - source[g].left + 1)]
          /\ stats' = count_protocol(update_packet_stats(stats, p.size, now), p.protocol)
    /\ UNCHANGED <<limits, returned, engine, locks, started, cancelled, now, ml, detection, monitor, sampler, reaper,
                   queue, active_flows, recent_alerts, published, created, submitted,
                   dropped>>

AfterPacket(left) == IF left = 0 THEN "endbatch" ELSE "stats"

\* A variant that takes one packet more than the capacity.
try_send_ok_off_by_one(q) == Len(q) <= QueueCapacity

\* try_send takes the packet while the channel holds fewer than its capacity.
try_send_ok(q) == Len(q) < QueueCapacity

\* packet_sender.try_send: Closed once the receiver is gone, Ok with room in
\* the channel, Full otherwise (the packet is dropped, then sleep 1 ms).
SourceSend(g) ==
    /\ source[g].pc = "send"
    /\ submitted' = Append(submitted, source[g].pkt)
    /\ IF detection[g].pc = "done"
       THEN /\ source' = [source EXCEPT ![g].pc = "done", ![g].pkt = NoPacket]
            /\ UNCHANGED <<queue, dropped>>
       ELSE IF try_send_ok(queue[g])
       THEN /\ queue' = [queue EXCEPT ![g] = Append(@, source[g].pkt)]
            /\ source' = [source EXCEPT ![g].pc = AfterPacket(source[g].left - 1),
                                        ![g].left = @ - 1,
                                        ![g].pkt = NoPacket,
                                        ![g].total_sent = @ + 1]
            /\ UNCHANGED dropped
       ELSE /\ dropped' = dropped \cup {source[g].pkt.id}
            /\ source' = [source EXCEPT ![g].pc = "sleep1",
                                        ![g].left = @ - 1,
                                        ![g].pkt = NoPacket,
                                        ![g].total_dropped = @ + 1]
            /\ UNCHANGED queue
    /\ UNCHANGED <<limits, returned, engine, locks, started, cancelled, now, ml, detection, monitor, sampler, reaper,
                   active_flows, recent_alerts, stats, published, created>>

\* The 1 ms sleep after a drop is over: on with the batch.
SourceResume(g) ==
    /\ source[g].pc = "sleep1"
    /\ ~source[g].late
    /\ source' = [source EXCEPT ![g].pc = AfterPacket(source[g].left),
                                ![g].late = cancelled]
    /\ UNCHANGED <<limits, returned, engine, locks, started, cancelled, now, ml, detection, monitor, sampler, reaper,
                   queue, active_flows, recent_alerts, stats, published, created,
                   submitted, dropped>>

\* End of a batch: the rate refresh once a second, then sleep 10 ms.
SourceEndBatch(g) ==
    /\ source[g].pc = "endbatch"
    /\ IF now - source[g].last_stats_update > 1
       THEN /\ stats' = [stats EXCEPT !.processing_rate =
                            source[g].total_sent \div (now - source[g].last_stats_update)]
            /\ source' = [source EXCEPT ![g].pc = "sleep10",
                                        ![g].last_stats_update = now]
       ELSE /\ source' = [source EXCEPT ![g].pc = "sleep10"]
            /\ UNCHANGED stats
    /\ UNCHANGED <<limits, returned, engine, locks, started, cancelled, now, ml, detection, monitor, sampler, reaper,
                   queue, active_flows, recent_alerts, published, created, submitted,
                   dropped>>

SourceStep(g) ==
    \/ SourceExit(g)
    \/ SourceBatch(g)
    \/ SourceCount(g)
    \/ SourceSend(g)
    \/ SourceResume(g)
    \/ SourceEndBatch(g)

\* --------------------------------------------------- PacketCapture task

\* What capture.next_packet and parse_packet make of one turn of the loop: a
\* frame that decodes, a frame that does not, TimeoutExpired, another error.
ReadOutcomes == {"packet", "undecodable", "timeout", "error"}

LivePackets == {PktSyn}

\* Where start_capture is pending: not yet polled, in yield_now, in its
\* 100 us sleep.
LiveParked(g) == source[g].pc \in {"live_spawned", "live_yield", "live_sleep"}

\* select!: the cancelled branch is ready; the task ends.
LiveExit(g) ==
    /\ LiveParked(g)
    /\ cancelled
    /\ source' = [source EXCEPT ![g].pc = "done"]
    /\ UNCHANGED <<limits, returned, engine, locks, started, cancelled, now, ml, detection, monitor,
                   sampler, reaper, queue, active_flows, recent_alerts, stats, published,
                   created, submitted, dropped>>

\* Top of the loop: yield_now when packet_count is a multiple of 100.
LoopTop(packet_count) ==
    IF packet_count % YieldEvery = 0 THEN "live_yield" ELSE "live_read"

\* First poll, and the poll after a yield or a sleep.
LiveResume(g) ==
    /\ LiveParked(g)
    /\ ~source[g].late
    /\ source' = [source EXCEPT
           ![g].pc = IF source[g].pc = "live_yield" THEN "live_read"
                     ELSE LoopTop(source[g].packet_count),
           ![g].late = cancelled]
    /\ UNCHANGED <<limits, returned, engine, locks, started, cancelled, now, ml, detection, monitor,
                   sampler, reaper, queue, active_flows, recent_alerts, stats, published,
                   created, submitted, dropped>>

\* error_count after a turn: reset by a frame that was read, kept by a
\* timeout, raised by any other read error.  A frame that fails to parse was
\* read: it resets the count and is not counted as an error.
error_count_after(n, outcome) ==
    IF outcome \in {"packet", "undecodable"} THEN 0
    ELSE IF outcome = "error" THEN n + 1 ELSE n

\* A variant that takes a frame that does not parse on to the stats section
\* and the channel.
after_read_keeping_undecodable(src, outcome, p) ==
    LET n == error_count_after(src.error_count, outcome)
    IN  IF outcome = "error" /\ n >= MAX_ERRORS
        THEN [src EXCEPT !.pc = "done", !.error_count = n]
        ELSE IF outcome \in {"error", "timeout"}
        THEN [src EXCEPT !.pc = "live_sleep", !.error_count = n]
        ELSE [src EXCEPT !.pc = "live_stats", !.error_count = n,
                         !.packet_count = @ + 1, !.pkt = p]

\* One turn up to the parse: return Err at MAX_ERRORS read errors in a row,
\* sleep after a timeout or an error, go round after a frame that does not
\* parse, go on to the stats section with a parsed packet.
after_read(src, outcome, p) ==
    LET n == error_count_after(src.error_count, outcome)
    IN  IF outcome = "error" /\ n >= MAX_ERRORS
        THEN [src EXCEPT !.pc = "done", !.error_count = n]
        ELSE IF outcome \in {"error", "timeout"}
        THEN [src EXCEPT !.pc = "live_sleep", !.error_count = n]
        ELSE IF outcome = "undecodable"
        THEN [src EXCEPT !.pc = LoopTop(src.packet_count + 1), !.error_count = n,
                         !.packet_count = @ + 1]
        ELSE [src EXCEPT !.pc = "live_stats", !.error_count = n,
                         !.packet_count = @ + 1, !.pkt = p]

LiveRead(g) ==
    /\ source[g].pc = "live_read"
    /\ \E outcome \in ReadOutcomes, p \in LivePackets :
          /\ outcome \in {"packet", "undecodable"} =>
                 source[g].packet_count < MaxLiveFrames
          /\ outcome = "packet" => created < limits.packets
          /\ outcome # "packet" => p = PktSyn
          /\ source' = [source EXCEPT
                 ![g] = after_read(@, outcome, WithId(p, created + 1))]
          /\ created' = IF outcome = "packet" THEN created + 1 ELSE created
    /\ UNCHANGED <<limits, returned, engine, locks, started, cancelled, now, ml, detection, monitor,
                   sampler, reaper, queue, active_flows, recent_alerts, stats, published,
                   submitted, dropped>>

\* "Update stats before enqueue": the write section on SystemStats.
LiveCount(g) ==
    /\ source[g].pc = "live_stats"
    /\ stats' = count_protocol(update_packet_stats(stats, source[g].pkt.size, now),
                               source[g].pkt.protocol)
    /\ source' = [source EXCEPT ![g].pc = "live_send"]
    /\ UNCHANGED <<limits, returned, engine, locks, started, cancelled, now, ml, detection, monitor,
                   sampler, reaper, queue, active_flows, recent_alerts, published,
                   created, submitted, dropped>>

\* try_send: Ok, or Err(_) for a full or a closed channel: the packet is
\* dropped and the loop goes on.
LiveSend(g) ==
    /\ source[g].pc = "live_send"
    /\ submitted' = Append(submitted, source[g].pkt)
    /\ IF detection[g].pc # "done" /\ try_send_ok(queue[g])
       THEN /\ queue' = [queue EXCEPT ![g] = Append(@, source[g].pkt)]
            /\ UNCHANGED dropped
       ELSE /\ dropped' = dropped \cup {source[g].pkt.id}
            /\ UNCHANGED queue
    /\ source' = [source EXCEPT ![g].pc = LoopTop(source[g].packet_count),
                                ![g].pkt = NoPacket]
    /\ UNCHANGED <<limits, returned, engine, locks, started, cancelled, now, ml, detection, monitor,
                   sampler, reaper, active_flows, recent_alerts, stats, published,
                   created>>

LiveStep(g) ==
    \/ LiveExit(g)
    \/ LiveResume(g)
    \/ LiveRead(g)
    \/ LiveCount(g)
    \/ LiveSend(g)

\* ------------------------------------------------------- detection task

FlowCount(g) == Cardinality(DOMAIN active_flows[g])

\* Where process_packets is pending: not yet polled, or in recv on an empty
\* channel.
DetectionParked(g) == detection[g].pc \in {"spawned", "parked"}

\* select!: the cancelled branch is ready; the task ends and the receiver,
\* with what the channel still holds, is dropped.
DetectionExit(g) ==
    /\ DetectionParked(g)
    /\ cancelled
    /\ detection' = [detection EXCEPT ![g].pc = "done"]
    /\ queue' = [queue EXCEPT ![g] = <<>>]
    /\ UNCHANGED <<limits, returned, engine, locks, started, cancelled, now, ml, source, monitor, sampler, reaper,
                   active_flows, recent_alerts, stats, published, created, submitted,
                   dropped>>

\* First poll of process_packets: spawn the cleanup task, go to recv.
DetectionBegin(g) ==
    /\ detection[g].pc = "spawned"
    /\ detection' = [detection EXCEPT ![g].pc = "recv", ![g].late = cancelled]
    /\ reaper' = [reaper EXCEPT ![g].pc = "spawned"]
    /\ UNCHANGED <<limits, returned, engine, locks, started, cancelled, now, ml, source, monitor, sampler, queue,
                   active_flows, recent_alerts, stats, published, created, submitted,
                   dropped>>

\* The sender lives in the source task's future.
SenderGone(g) == source[g].pc = "done"

\* recv on an empty channel: pending while a sender lives, None after.
DetectionIdleRecv(g) ==
    /\ detection[g].pc = "recv"
    /\ queue[g] = <<>>
    /\ detection' = [detection EXCEPT
                        ![g].pc = IF SenderGone(g) THEN "done" ELSE "parked"]
    /\ UNCHANGED <<limits, returned, engine, locks, started, cancelled, now, ml, source, monitor, sampler, reaper,
                   queue, active_flows, recent_alerts, stats, published, created,
                   submitted, dropped>>

\* The channel woke the task.
DetectionWake(g) ==
    /\ detection[g].pc = "parked"
    /\ ~detection[g].late
    /\ queue[g] # <<>> \/ SenderGone(g)
    /\ detection' = [detection EXCEPT ![g].pc = "recv", ![g].late = cancelled]
    /\ UNCHANGED <<limits, returned, engine, locks, started, cancelled, now, ml, source, monitor, sampler, reaper,
                   queue, active_flows, recent_alerts, stats, published, created,
                   submitted, dropped>>

\* A receiver that gives up what the channel still holds once the sender is
\* gone.
DetectionRecv_until_sender_gone(g) ==
    /\ detection[g].pc = "recv"
    /\ queue[g] # <<>>
    /\ IF SenderGone(g)
       THEN /\ detection' = [detection EXCEPT ![g].pc = "done"]
            /\ queue' = [queue EXCEPT ![g] = <<>>]
       ELSE /\ detection' = [detection EXCEPT ![g].pc = "stats",
                                              ![g].pkt = Head(queue[g]),
                                              ![g].sent = <<>>,
                                              ![g].predict_err = FALSE]
            /\ queue' = [queue EXCEPT ![g] = Tail(@)]
    /\ UNCHANGED <<limits, returned, engine, locks, started, cancelled, now, ml, source, monitor, sampler,
                   reaper, active_flows, recent_alerts, stats, published, created,
                   submitted, dropped>>

\* recv: the head of the channel, whether or not a sender is left.
DetectionRecv(g) ==
    /\ detection[g].pc = "recv"
    /\ queue[g] # <<>>
    /\ detection' = [detection EXCEPT ![g].pc = "stats", ![g].pkt = Head(queue[g]),
                                      ![g].sent = <<>>, ![g].predict_err = FALSE]
    /\ queue' = [queue EXCEPT ![g] = Tail(@)]
    /\ UNCHANGED <<limits, returned, engine, locks, started, cancelled, now, ml, source, monitor, sampler, reaper,
                   active_flows, recent_alerts, stats, published, created, submitted,
                   dropped>>

\* process_single_packet, first write section on SystemStats.
packet_stats_section(s, p, flow_count, t) ==
    [count_protocol(update_packet_stats(s, p.size, t), p.protocol) EXCEPT
        !.active_flows = flow_count,
        !.top_talkers = update_top_talkers(s.top_talkers, p)]

DetectionStats(g) ==
    /\ detection[g].pc = "stats"
    /\ stats' = packet_stats_section(stats, detection[g].pkt, FlowCount(g), now)
    /\ detection' = [detection EXCEPT ![g].pc = "upsert"]
    /\ UNCHANGED <<limits, returned, engine, locks, started, cancelled, now, ml, source, monitor, sampler, reaper,
                   queue, active_flows, recent_alerts, published, created, submitted,
                   dropped>>

\* entry(flow_id).and_modify(add_packet).or_insert_with(NetworkFlow::new)
upsert(table, p, t) ==
    IF FlowId(p) \in DOMAIN table
    THEN [table EXCEPT ![FlowId(p)] = add_packet(@, p, t)]
    ELSE [k \in DOMAIN table \cup {FlowId(p)} |->
             IF k = FlowId(p) THEN NetworkFlow_new(p, t) ELSE table[k]]

\* flow_updated is set in and_modify only.
flow_updated_by(table, p) == FlowId(p) \in DOMAIN table

DetectionUpsert(g) ==
    /\ detection[g].pc = "upsert"
    /\ active_flows' = [active_flows EXCEPT ![g] = upsert(@, detection[g].pkt, now)]
    /\ detection' = [detection EXCEPT
           ![g].pc = "count",
           ![g].flow_updated = flow_updated_by(active_flows[g], detection[g].pkt)]
    /\ UNCHANGED <<limits, returned, engine, locks, started, cancelled, now, ml, source, monitor, sampler, reaper,
                   queue, recent_alerts, stats, published, created, submitted, dropped>>

\* Second write section: active_flows again.
DetectionCount(g) ==
    /\ detection[g].pc = "count"
    /\ stats' = [stats EXCEPT !.active_flows = FlowCount(g)]
    /\ detection' = [detection EXCEPT ![g].pc = "analyze"]
    /\ UNCHANGED <<limits, returned, engine, locks, started, cancelled, now, ml, source, monitor, sampler, reaper,
                   queue, active_flows, recent_alerts, published, created, submitted,
                   dropped>>

\* A variant that publishes first and counts afterwards.
send_alert_publish_first == <<"alert_send", "alert_stats", "alert_ring">>

\* send_alert does three things in this order: the write section on
\* SystemStats, the push on the ring, the send on the broadcast channel.
send_alert_order == <<"alert_stats", "alert_ring", "alert_send">>

StepIndex(pc) == CHOOSE i \in 1..Len(send_alert_order) : send_alert_order[i] = pc

\* The detection task after the step `pc` of send_alert on its first pending
\* alert: the next step, or the alert is done and the next one (or the rest
\* of process_single_packet) follows.
AfterAlertStep(d, pc) ==
    IF StepIndex(pc) < Len(send_alert_order)
    THEN [d EXCEPT !.pc = send_alert_order[StepIndex(pc) + 1]]
    ELSE [d EXCEPT !.pc = IF Tail(d.pending) = <<>> THEN d.resume
                          ELSE send_alert_order[1],
                   !.pending = Tail(@)]

\* An ML alert from the score 0.7 on, not only above it.
ml_alerts_from_threshold(flow, outcome) ==
    IF Len(flow.packets) >= MlMinPackets /\ outcome >= MlAlertScore
    THEN <<create_ml_alert(flow, outcome)>>
    ELSE <<>>

\* The alerts the per-flow stage sends for a flow, in order, when predict
\* gives `outcome`: the ML alert, then the flag rule.
ml_alerts(flow, outcome) ==
    IF Len(flow.packets) >= MlMinPackets /\ outcome > MlAlertScore
    THEN <<create_ml_alert(flow, outcome)>>
    ELSE <<>>

\* A per-flow stage that gives up at an Err of predict, as with `?`.
flow_alerts_stop_at_err(table, p, updated, outcome) ==
    IF updated /\ FlowId(p) \in DOMAIN table
    THEN IF Len(table[FlowId(p)].packets) >= MlMinPackets /\ outcome = PredictErr
         THEN <<>>
         ELSE ml_alerts(table[FlowId(p)], outcome)
                  \o detect_suspicious_flags(table[FlowId(p)])
    ELSE <<>>

flow_alerts(table, p, updated, outcome) ==
    IF updated /\ FlowId(p) \in DOMAIN table
    THEN ml_alerts(table[FlowId(p)], outcome)
             \o detect_suspicious_flags(table[FlowId(p)])
    ELSE <<>>

\* predict was called for the packet's flow and gave Err.
predict_failed(table, p, updated, outcome) ==
    /\ updated
    /\ FlowId(p) \in DOMAIN table
    /\ Len(table[FlowId(p)].packets) >= MlMinPackets
    /\ outcome = PredictErr

DetectionAnalyze(g) ==
    /\ detection[g].pc = "analyze"
    /\ \E outcome \in ml :
          LET alerts == flow_alerts(active_flows[g], detection[g].pkt,
                                    detection[g].flow_updated, outcome)
          IN  detection' = [detection EXCEPT
                  ![g].pc = IF alerts = <<>> THEN "global" ELSE send_alert_order[1],
                  ![g].pending = alerts,
                  ![g].resume = "global",
                  ![g].predict_err = predict_failed(active_flows[g], detection[g].pkt,
                                                    detection[g].flow_updated, outcome)]
    /\ UNCHANGED <<limits, returned, engine, locks, started, cancelled, now, ml, source, monitor, sampler, reaper,
                   queue, active_flows, recent_alerts, stats, published, created,
                   submitted, dropped>>

DetectionAlertStats(g) ==
    /\ detection[g].pc = "alert_stats"
    /\ stats' = increment_threat_count(stats, Head(detection[g].pending).severity)
    /\ detection' = [detection EXCEPT ![g] = AfterAlertStep(@, "alert_stats")]
    /\ UNCHANGED <<limits, returned, engine, locks, started, cancelled, now, ml, source, monitor, sampler, reaper,
                   queue, active_flows, recent_alerts, published, created, submitted,
                   dropped>>

\* push_back, and pop_front past RingSize.
\* push_back without the pop_front that follows it.
push_recent_unbounded(ring, alert) == Append(ring, alert)

\* recent.push_back(alert); if recent.len() > 100 { recent.pop_front(); }
push_recent(ring, alert) ==
    IF Len(ring) + 1 > RingSize THEN Tail(Append(ring, alert)) ELSE Append(ring, alert)

DetectionAlertRing(g) ==
    /\ detection[g].pc = "alert_ring"
    /\ recent_alerts' = [recent_alerts EXCEPT
                            ![g] = push_recent(@, Head(detection[g].pending))]
    /\ detection' = [detection EXCEPT ![g] = AfterAlertStep(@, "alert_ring")]
    /\ UNCHANGED <<limits, returned, engine, locks, started, cancelled, now, ml, source, monitor, sampler, reaper,
                   queue, active_flows, stats, published, created, submitted, dropped>>

\* alert_sender.send (the handle keeps one receiver, so send succeeds).
DetectionAlertSend(g) ==
    /\ detection[g].pc = "alert_send"
    /\ published' = Append(published, Head(detection[g].pending))
    /\ detection' = [detection EXCEPT
           ![g] = AfterAlertStep([@ EXCEPT !.sent = Append(detection[g].sent,
                                     Head(detection[g].pending).threat_type)],
                                 "alert_send")]
    /\ UNCHANGED <<limits, returned, engine, locks, started, cancelled, now, ml, source, monitor, sampler, reaper,
                   queue, active_flows, recent_alerts, stats, created, submitted,
                   dropped>>

\* run_global_analysis when the table size is a multiple of 100.
FlowSnapshot(g) == {active_flows[g][k] : k \in DOMAIN active_flows[g]}

\* run_global_analysis with the DDoS rule ahead of the port-scan rule.
global_alerts_ddos_first(snapshot) ==
    {dd \o ps : ps \in AsOption(detect_port_scan(snapshot)),
                dd \in AsOption(detect_ddos(snapshot))}

\* run_global_analysis: detect_port_scan, then detect_ddos, on one snapshot.
global_alerts(snapshot) ==
    {ps \o dd : ps \in AsOption(detect_port_scan(snapshot)),
                dd \in AsOption(detect_ddos(snapshot))}

\* A global stage that runs the two rules for every packet.
DetectionGlobal_every_packet(g) ==
    /\ detection[g].pc = "global"
    /\ \E alerts \in global_alerts(FlowSnapshot(g)) :
          detection' = [detection EXCEPT
              ![g].pc = IF alerts = <<>> THEN "recv" ELSE send_alert_order[1],
              ![g].pkt = NoPacket,
              ![g].pending = alerts,
              ![g].resume = "recv"]
    /\ UNCHANGED <<limits, returned, engine, locks, started, cancelled, now, ml, source, monitor, sampler, reaper,
                   queue, active_flows, recent_alerts, stats, published, created,
                   submitted, dropped>>

DetectionGlobal(g) ==
    /\ detection[g].pc = "global"
    /\ \E alerts \in IF FlowCount(g) % GlobalAnalysisEvery = 0
                     THEN global_alerts(FlowSnapshot(g)) ELSE {<<>>} :
          detection' = [detection EXCEPT
              ![g].pc = IF alerts = <<>> THEN "recv" ELSE send_alert_order[1],
              ![g].pkt = NoPacket,
              ![g].pending = alerts,
              ![g].resume = "recv"]
    /\ UNCHANGED <<limits, returned, engine, locks, started, cancelled, now, ml, source, monitor, sampler, reaper,
                   queue, active_flows, recent_alerts, stats, published, created,
                   submitted, dropped>>

DetectionStep(g) ==
    \/ DetectionExit(g)
    \/ DetectionBegin(g)
    \/ DetectionIdleRecv(g)
    \/ DetectionWake(g)
    \/ DetectionRecv(g)
    \/ DetectionStats(g)
    \/ DetectionUpsert(g)
    \/ DetectionCount(g)
    \/ DetectionAnalyze(g)
    \/ DetectionAlertStats(g)
    \/ DetectionAlertRing(g)
    \/ DetectionAlertSend(g)
    \/ DetectionGlobal(g)

\* ------------------------------------------- stats log, sampler, reaper

TickerLive(pc) == pc \in {"spawned", "waiting"}

\* interval.tick(): log a read of SystemStats.
MonitorTick(g) ==
    /\ TickerLive(monitor[g])
    /\ monitor' = [monitor EXCEPT ![g] = "waiting"]
    /\ UNCHANGED <<limits, returned, engine, locks, started, cancelled, now, ml, source, detection, sampler, reaper,
                   queue, active_flows, recent_alerts, stats, published, created,
                   submitted, dropped>>

MonitorExit(g) ==
    /\ TickerLive(monitor[g])
    /\ cancelled
    /\ monitor' = [monitor EXCEPT ![g] = "done"]
    /\ UNCHANGED <<limits, returned, engine, locks, started, cancelled, now, ml, source, detection, sampler, reaper,
                   queue, active_flows, recent_alerts, stats, published, created,
                   submitted, dropped>>

\* interval.tick(): write cpu_usage and memory_usage.
\* A sampler that stores a freshly built record with its two readings.
SamplerTick_whole_record(g) ==
    /\ TickerLive(sampler[g])
    /\ \E cpu \in CpuSamples, mem \in MemSamples :
          stats' = [SystemStats_new EXCEPT !.cpu_usage = cpu, !.memory_usage = mem]
    /\ sampler' = [sampler EXCEPT ![g] = "waiting"]
    /\ UNCHANGED <<limits, returned, engine, locks, started, cancelled, now, ml, source, detection, monitor, reaper,
                   queue, active_flows, recent_alerts, published, created, submitted,
                   dropped>>

SamplerTick(g) ==
    /\ TickerLive(sampler[g])
    /\ \E cpu \in CpuSamples, mem \in MemSamples :
          stats' = [stats EXCEPT !.cpu_usage = cpu, !.memory_usage = mem]
    /\ sampler' = [sampler EXCEPT ![g] = "waiting"]
    /\ UNCHANGED <<limits, returned, engine, locks, started, cancelled, now, ml, source, detection, monitor, reaper,
                   queue, active_flows, recent_alerts, published, created, submitted,
                   dropped>>

SamplerExit(g) ==
    /\ TickerLive(sampler[g])
    /\ cancelled
    /\ sampler' = [sampler EXCEPT ![g] = "done"]
    /\ UNCHANGED <<limits, returned, engine, locks, started, cancelled, now, ml, source, detection, monitor, reaper,
                   queue, active_flows, recent_alerts, stats, published, created,
                   submitted, dropped>>

\* The cleanup task: loop { interval.tick().await; cleanup_expired_flows }.
\* Nothing in the loop looks at the token.
ReaperTick(g) ==
    /\ TickerLive(reaper[g].pc)
    /\ reaper' = [reaper EXCEPT ![g].pc = "cleanup"]
    /\ UNCHANGED <<limits, returned, engine, locks, started, cancelled, now, ml, source, detection, monitor, sampler,
                   queue, active_flows, recent_alerts, stats, published, created,
                   submitted, dropped>>

\* A variant that also takes the flows idle for exactly the timeout.
expired_keys_inclusive(table, t) ==
    SeqOfSet({k \in DOMAIN table : t - table[k].last_seen >= FlowTimeout})

expired_keys(table, t) ==
    SeqOfSet({k \in DOMAIN table : t - table[k].last_seen > FlowTimeout})

remove_flow(table, key) == [k \in DOMAIN table \ {key} |-> table[k]]

\* cleanup_expired_flows: collect the expired keys, then remove them one by one.
ReaperCleanup(g) ==
    /\ reaper[g].pc \in {"cleanup", "removing"}
    /\ IF reaper[g].pc = "cleanup"
       THEN /\ reaper' = [reaper EXCEPT
                   ![g].expired = expired_keys(active_flows[g], now),
                   ![g].pc = IF expired_keys(active_flows[g], now) = <<>>
                             THEN "waiting" ELSE "removing"]
            /\ UNCHANGED active_flows
       ELSE /\ active_flows' = [active_flows EXCEPT
                   ![g] = remove_flow(@, Head(reaper[g].expired))]
            /\ reaper' = [reaper EXCEPT
                   ![g].expired = Tail(@),
                   ![g].pc = IF Tail(reaper[g].expired) = <<>>
                             THEN "waiting" ELSE "removing"]
    /\ UNCHANGED <<limits, returned, engine, locks, started, cancelled, now, ml, source, detection, monitor, sampler,
                   queue, recent_alerts, stats, published, created, submitted, dropped>>

\* ------------------------------------------------------------ specifications

\* The pipeline of one start, source -> queue -> detection, in runs shorter
\* than the flow timeout (the cleanup task has nothing to remove).
Next ==
    \/ Start
    \/ Shutdown
    \/ \E g \in Generations :
          \/ SourceStep(g)
          \/ DetectionStep(g)

Spec == Init /\ [][Next]_vars

\* The life cycle, all five kinds of task: start called once with traffic, or
\* twice on the same handle with sources that have nothing to send yet.
InitLife ==
    /\ InitCommon
    /\ limits \in {[starts |-> 1, packets |-> LifePackets],
                   [starts |-> 2, packets |-> 0]}
    /\ ml = PredictOutcomes
    /\ detection = [g \in Generations |-> DetectionIdle]

NextLife ==
    \/ Start
    \/ Shutdown
    \/ \E g \in Generations :
          \/ SourceStep(g)
          \/ DetectionStep(g)
          \/ MonitorTick(g)
          \/ MonitorExit(g)
          \/ SamplerTick(g)
          \/ SamplerExit(g)
          \/ ReaperTick(g)
          \/ ReaperCleanup(g)

SpecLife == InitLife /\ [][NextLife]_vars

\* One DetectionEngine driven by hand: process_packets runs as a task on a
\* channel whose sender the harness keeps; the harness sends the next packet
\* of one 5-tuple when the engine is idle.  The weights are random and fixed
\* for a run: either they score every flow below the alert level (long
\* flows), or any outcome is possible (short flows).
InitFlow ==
    /\ InitCommon
    /\ \/ limits = [starts |-> 0, packets |-> MaxFlowPackets] /\ ml = {500}
       \/ limits = [starts |-> 0, packets |-> MaxMlPackets] /\ ml = ThresholdOutcomes
    /\ detection = [g \in Generations |->
                       IF g = 1 THEN [DetectionIdle EXCEPT !.pc = "spawned"]
                       ELSE DetectionIdle]

Feed ==
    /\ detection[1].pc = "parked"
    /\ queue[1] = <<>>
    /\ Len(submitted) < limits.packets
    /\ \E p \in FlowPackets :
          /\ queue' = [queue EXCEPT ![1] = <<WithId(p, Len(submitted) + 1)>>]
          /\ submitted' = Append(submitted, WithId(p, Len(submitted) + 1))
    /\ UNCHANGED <<limits, returned, engine, locks, started, cancelled, now, ml, source, detection, monitor,
                   sampler, reaper, active_flows, recent_alerts, stats, published,
                   created, dropped>>

NextFlow ==
    \/ Feed
    \/ DetectionBegin(1)
    \/ DetectionIdleRecv(1)
    \/ DetectionWake(1)
    \/ DetectionRecv(1)
    \/ DetectionStats(1)
    \/ DetectionUpsert(1)
    \/ DetectionCount(1)
    \/ DetectionAnalyze(1)
    \/ DetectionAlertStats(1)
    \/ DetectionAlertRing(1)
    \/ DetectionAlertSend(1)
    \/ DetectionGlobal(1)

SpecFlow == InitFlow /\ [][NextFlow]_vars

\* The four tasks of start under the scheduling the runtime gives: a task
\* that can take a step takes one, and a select! whose cancelled branch stays
\* ready while its tick is only ready now and then takes the cancelled branch.
\* The cleanup task is left to SpecLife: in runs shorter than the flow timeout
\* it changes nothing the four tasks read.
NextFour ==
    \/ Start
    \/ Shutdown
    \/ \E g \in Generations :
          \/ SourceStep(g)
          \/ DetectionStep(g)
          \/ MonitorTick(g)
          \/ MonitorExit(g)
          \/ SamplerTick(g)
          \/ SamplerExit(g)

FairLife ==
    /\ InitLife
    /\ [][NextFour]_vars
    /\ \A g \in Generations :
          /\ WF_vars(SourceStep(g))
          /\ WF_vars(DetectionStep(g))
          /\ WF_vars(MonitorExit(g))
          /\ WF_vars(SamplerExit(g))

\* The handle used again, with sources that have packets to send: start is
\* called on a fresh handle, or after shutdown once the tasks of the call
\* before it, if there was one, have ended.
InitReuse ==
    /\ InitCommon
    /\ limits = [starts |-> 2, packets |-> LifePackets]
    /\ ml = {500}
    /\ detection = [g \in Generations |-> DetectionIdle]

StartFirst ==
    /\ ~cancelled
    /\ started = 0
    /\ Start

StartAgain ==
    /\ cancelled
    /\ started > 0 =>
          /\ source[started].pc = "done"
          /\ detection[started].pc = "done"
          /\ monitor[started] = "done"
          /\ sampler[started] = "done"
    /\ Start

NextReuse ==
    \/ StartFirst
    \/ StartAgain
    \/ Shutdown
    \/ \E g \in Generations :
          \/ SourceStep(g)
          \/ DetectionStep(g)
          \/ MonitorTick(g)
          \/ MonitorExit(g)
          \/ SamplerTick(g)
          \/ SamplerExit(g)

SpecReuse == InitReuse /\ [][NextReuse]_vars

\* One DetectionEngine and its cleanup task on a logical clock: the harness
\* sends a packet, lets time pass, or lets the cleanup interval tick, each
\* while the engine is idle, so that no upsert runs during a cleanup.  The
\* clock counts seconds; a cleanup takes far less and sees one instant.
InitTable ==
    /\ InitCommon
    /\ limits = [starts |-> 0, packets |-> MaxTablePackets]
    /\ ml = {500}
    /\ detection = [g \in Generations |->
                       IF g = 1 THEN [DetectionIdle EXCEPT !.pc = "spawned"]
                       ELSE DetectionIdle]

EngineIdle == detection[1].pc = "parked" /\ queue[1] = <<>>

CleanupRunning == reaper[1].pc \in {"cleanup", "removing"}

FeedTable ==
    /\ EngineIdle
    /\ ~CleanupRunning
    /\ Len(submitted) < limits.packets
    /\ \E p \in TablePackets :
          /\ queue' = [queue EXCEPT ![1] = <<WithId(p, Len(submitted) + 1)>>]
          /\ submitted' = Append(submitted, WithId(p, Len(submitted) + 1))
    /\ UNCHANGED <<limits, returned, engine, locks, started, cancelled, now, ml, source, detection, monitor,
                   sampler, reaper, active_flows, recent_alerts, stats, published,
                   created, dropped>>

AdvanceClock ==
    /\ EngineIdle
    /\ ~CleanupRunning
    /\ \E d \in ClockSteps :
          /\ now + d <= MaxClock
          /\ now' = now + d
    /\ UNCHANGED <<limits, returned, engine, locks, started, cancelled, ml, source, detection, monitor, sampler,
                   reaper, queue, active_flows, recent_alerts, stats, published,
                   created, submitted, dropped>>

ReaperTickQuiet ==
    /\ EngineIdle
    /\ ReaperTick(1)

NextTable ==
    \/ FeedTable
    \/ AdvanceClock
    \/ ReaperTickQuiet
    \/ ReaperCleanup(1)
    \/ DetectionBegin(1)
    \/ DetectionIdleRecv(1)
    \/ DetectionWake(1)
    \/ DetectionRecv(1)
    \/ DetectionStats(1)
    \/ DetectionUpsert(1)
    \/ DetectionCount(1)
    \/ DetectionAnalyze(1)
    \/ DetectionAlertStats(1)
    \/ DetectionAlertRing(1)
    \/ DetectionAlertSend(1)
    \/ DetectionGlobal(1)

SpecTable == InitTable /\ [][NextTable]_vars

\* The engine and its cleanup task side by side, as the two tasks run: a packet
\* may arrive, and be upserted, between two steps of a cleanup.
FeedDuringCleanup ==
    /\ EngineIdle
    /\ Len(submitted) < limits.packets
    /\ \E p \in TablePackets :
          /\ queue' = [queue EXCEPT ![1] = <<WithId(p, Len(submitted) + 1)>>]
          /\ submitted' = Append(submitted, WithId(p, Len(submitted) + 1))
    /\ UNCHANGED <<limits, returned, engine, locks, started, cancelled, now, ml, source, detection, monitor,
                   sampler, reaper, active_flows, recent_alerts, stats, published,
                   created, dropped>>

InitReap ==
    /\ InitCommon
    /\ limits = [starts |-> 0, packets |-> LifePackets]
    /\ ml = {500}
    /\ detection = [g \in Generations |->
                       IF g = 1 THEN [DetectionIdle EXCEPT !.pc = "spawned"]
                       ELSE DetectionIdle]

NextReap ==
    \/ FeedDuringCleanup
    \/ AdvanceClock
    \/ ReaperTick(1)
    \/ ReaperCleanup(1)
    \/ DetectionBegin(1)
    \/ DetectionIdleRecv(1)
    \/ DetectionWake(1)
    \/ DetectionRecv(1)
    \/ DetectionStats(1)
    \/ DetectionUpsert(1)
    \/ DetectionCount(1)
    \/ DetectionAnalyze(1)
    \/ DetectionAlertStats(1)
    \/ DetectionAlertRing(1)
    \/ DetectionAlertSend(1)
    \/ DetectionGlobal(1)

SpecReap == InitReap /\ [][NextReap]_vars

\* The flow rules on given flow tables: run_global_analysis is called on an
\* engine whose table holds the flows of a scan (sources with flows to some
\* ports of one or two targets) or of a flood (flows with many packets to
\* one or two destinations).  The counters of SystemStats play no part in
\* the rules.

\* The flow that `n` packets like `p`, with ids base+1.., make: what
\* NetworkFlow::new and n-1 calls of add_packet give at time 0.
FlowOf(p, n, base) ==
    [flow_id |-> FlowId(p), src_ip |-> p.src_ip, dst_ip |-> p.dst_ip,
     src_port |-> p.src_port, dst_port |-> p.dst_port, protocol |-> p.protocol,
     packets |-> [i \in 1..n |-> WithId(p, base + i)], start_time |-> 0,
     last_seen |-> 0, byte_count |-> n * p.size, flags_seen |-> p.flags]

TableOf(flows) ==
    [k \in {f.flow_id : f \in flows} |-> CHOOSE f \in flows : f.flow_id = k]

ScanPacket(src, dst, port) ==
    [src_ip |-> src, src_port |-> 40000, dst_ip |-> dst, dst_port |-> port,
     protocol |-> "TCP", size |-> 64, flags |-> <<"SYN">>]

PingPacket(src, dst) ==
    [src_ip |-> src, src_port |-> -1, dst_ip |-> dst, dst_port |-> -1,
     protocol |-> "ICMP", size |-> 84, flags |-> <<>>]

\* One source with flows to ports 1..n of a target and to ports 1..again of
\* a second target, a ping of its own, and a second source with flows to
\* ports 1..m.
ScanFlows(n, again, m) ==
    {FlowOf(ScanPacket("203.0.113.7", "10.0.0.5", port), 1, port) : port \in 1..n}
        \cup {FlowOf(ScanPacket("203.0.113.7", "10.0.0.6", port), 1, 100 + port) :
                 port \in 1..again}
        \cup {FlowOf(ScanPacket("198.51.100.1", "10.0.0.5", port), 1, 200 + port) :
                 port \in 1..m}
        \cup {FlowOf(PingPacket("203.0.113.7", "10.0.0.5"), 1, 300)}

ScanTables ==
    {TableOf(ScanFlows(n, again, m)) :
        n \in 0..MaxScanPorts, again \in {0, 2}, m \in {0, 4, 5}}

FloodPacket(src, dst, size) ==
    [src_ip |-> src, src_port |-> 50000, dst_ip |-> dst, dst_port |-> 80,
     protocol |-> "TCP", size |-> size, flags |-> <<"ACK", "PSH">>]

\* Packets and packet size of the main flow of a flood.
FloodLoads ==
    {<<999, 1400>>, <<1000, 1400>>, <<1001, 1400>>, <<1200, 1400>>, <<2000, 1400>>,
     <<2001, 1400>>, <<5000, 1400>>, <<5001, 1400>>, <<1000, 10000>>,
     <<1000, 10001>>, <<1000, 20000>>, <<1000, 20001>>, <<1000, 50000>>,
     <<1000, 50001>>}

\* The main flow to 10.0.0.9, `more` packets to it from a second source,
\* and `other` packets to a second destination.
FloodFlows(load, more, other) ==
    {FlowOf(FloodPacket("198.51.100.1", "10.0.0.9", load[2]), load[1], 0)}
        \cup (IF more = 0 THEN {}
              ELSE {FlowOf(FloodPacket("198.51.100.2", "10.0.0.9", 64), more, 10000)})
        \cup (IF other = 0 THEN {}
              ELSE {FlowOf(FloodPacket("198.51.100.3", "10.0.0.8", 64), other, 20000)})

FloodTables ==
    {TableOf(FloodFlows(load, more, other)) :
        load \in FloodLoads, more \in {0, 1}, other \in {0, 1001}}

InitRules ==
    /\ started = 0
    /\ returned = NoReturn
    /\ locks = NoLocks
    /\ engine = MLEngine_new
    /\ cancelled = FALSE
    /\ now = 0
    /\ source = [g \in Generations |-> SourceIdle]
    /\ monitor = [g \in Generations |-> "none"]
    /\ sampler = [g \in Generations |-> "none"]
    /\ reaper = [g \in Generations |-> ReaperIdle]
    /\ queue = [g \in Generations |-> <<>>]
    /\ \E table \in ScanTables \cup FloodTables :
          active_flows = [g \in Generations |-> IF g = 1 THEN table ELSE NoFlows]
    /\ recent_alerts = [g \in Generations |-> <<>>]
    /\ stats = SystemStats_new
    /\ published = <<>>
    /\ created = 0
    /\ submitted = <<>>
    /\ dropped = {}
    /\ limits = [starts |-> 0, packets |-> 0]
    /\ ml = {500}
    /\ detection = [g \in Generations |->
                       IF g = 1 THEN [DetectionIdle EXCEPT !.pc = "analysis"]
                       ELSE DetectionIdle]

\* run_global_analysis: the port-scan rule, then the DDoS rule, each alert
\* through send_alert.
RunGlobalAnalysis(g) ==
    /\ detection[g].pc = "analysis"
    /\ \E alerts \in global_alerts(FlowSnapshot(g)) :
          detection' = [detection EXCEPT
              ![g].pc = IF alerts = <<>> THEN "finished" ELSE send_alert_order[1],
              ![g].pending = alerts,
              ![g].resume = "finished"]
    /\ UNCHANGED <<limits, returned, engine, locks, started, cancelled, now, ml, source, monitor, sampler, reaper,
                   queue, active_flows, recent_alerts, stats, published, created,
                   submitted, dropped>>

NextRules ==
    \/ RunGlobalAnalysis(1)
    \/ DetectionAlertStats(1)
    \/ DetectionAlertRing(1)
    \/ DetectionAlertSend(1)

SpecRules == InitRules /\ [][NextRules]_vars

\* Alert ring under load: one detection engine whose channel is given, one at
\* a time, packets of one SYN+FIN flow; every packet after the first raises
\* one alert.
RingPackets == {PktSynFin}

InitRing ==
    /\ InitCommon
    /\ limits = [starts |-> 0, packets |-> MaxRingPackets]
    /\ ml = {500}
    /\ detection = [g \in Generations |->
                       IF g = 1 THEN [DetectionIdle EXCEPT !.pc = "spawned"]
                       ELSE DetectionIdle]

FeedRing ==
    /\ detection[1].pc = "parked"
    /\ queue[1] = <<>>
    /\ Len(submitted) < limits.packets
    /\ \E p \in RingPackets :
          /\ queue' = [queue EXCEPT ![1] = <<WithId(p, Len(submitted) + 1)>>]
          /\ submitted' = Append(submitted, WithId(p, Len(submitted) + 1))
    /\ UNCHANGED <<limits, returned, engine, locks, started, cancelled, now, ml, source, detection, monitor,
                   sampler, reaper, active_flows, recent_alerts, stats, published,
                   created, dropped>>

NextRing ==
    \/ FeedRing
    \/ DetectionBegin(1)
    \/ DetectionIdleRecv(1)
    \/ DetectionWake(1)
    \/ DetectionRecv(1)
    \/ DetectionStats(1)
    \/ DetectionUpsert(1)
    \/ DetectionCount(1)
    \/ DetectionAnalyze(1)
    \/ DetectionAlertStats(1)
    \/ DetectionAlertRing(1)
    \/ DetectionAlertSend(1)
    \/ DetectionGlobal(1)

SpecRing == InitRing /\ [][NextRing]_vars

\* Per-flow stage and global stage together: an engine that has already
\* taken packets of 99 or 100 flows, among them a source that has touched 5
\* ports, a destination that has received more than 1,000 packets, and a
\* SYN+FIN flow of four packets; then packets are fed one at a time.
FillerPacket(i) ==
    [src_ip |-> "192.0.2.1", src_port |-> 10000 + i, dst_ip |-> "10.0.0.7",
     dst_port |-> 443, protocol |-> "TCP", size |-> 64, flags |-> <<"ACK">>]

Filler(k) == {FlowOf(FillerPacket(i), 1, 30000 + i) : i \in 1..k}

HundredFlows(total) ==
    Filler(total - PortScanMinPorts - 3)
        \cup ScanFlows(PortScanMinPorts, 0, 0)
        \cup FloodFlows(<<1001, 1400>>, 0, 0)
        \cup {FlowOf(PktSynFin, MlMinPackets - 1, 40000)}

HundredTables ==
    {TableOf(HundredFlows(total)) :
        total \in {GlobalAnalysisEvery - 1, GlobalAnalysisEvery}}

\* A packet of the SYN+FIN flow, the first packet of a new flow.
HundredPackets == {PktSynFin, FillerPacket(0)}

InitHundred ==
    /\ started = 0
    /\ returned = NoReturn
    /\ locks = NoLocks
    /\ engine = MLEngine_new
    /\ cancelled = FALSE
    /\ now = 0
    /\ source = [g \in Generations |-> SourceIdle]
    /\ monitor = [g \in Generations |-> "none"]
    /\ sampler = [g \in Generations |-> "none"]
    /\ reaper = [g \in Generations |-> ReaperIdle]
    /\ queue = [g \in Generations |-> <<>>]
    /\ \E table \in HundredTables :
          active_flows = [g \in Generations |-> IF g = 1 THEN table ELSE NoFlows]
    /\ recent_alerts = [g \in Generations |-> <<>>]
    /\ stats = SystemStats_new
    /\ published = <<>>
    /\ created = 0
    /\ submitted = <<>>
    /\ dropped = {}
    /\ limits = [starts |-> 0, packets |-> MaxHundredPackets]
    /\ ml = {PredictErr, 950}
    /\ detection = [g \in Generations |->
                       IF g = 1 THEN [DetectionIdle EXCEPT !.pc = "parked"]
                       ELSE DetectionIdle]

FeedHundred ==
    /\ detection[1].pc = "parked"
    /\ queue[1] = <<>>
    /\ Len(submitted) < limits.packets
    /\ \E p \in HundredPackets :
          /\ queue' = [queue EXCEPT ![1] = <<WithId(p, 50000 + Len(submitted) + 1)>>]
          /\ submitted' = Append(submitted, WithId(p, 50000 + Len(submitted) + 1))
    /\ UNCHANGED <<limits, returned, engine, locks, started, cancelled, now, ml, source, detection,
                   monitor, sampler, reaper, active_flows, recent_alerts, stats,
                   published, created, dropped>>

NextHundred ==
    \/ FeedHundred
    \/ DetectionIdleRecv(1)
    \/ DetectionWake(1)
    \/ DetectionRecv(1)
    \/ DetectionStats(1)
    \/ DetectionUpsert(1)
    \/ DetectionCount(1)
    \/ DetectionAnalyze(1)
    \/ DetectionAlertStats(1)
    \/ DetectionAlertRing(1)
    \/ DetectionAlertSend(1)
    \/ DetectionGlobal(1)

SpecHundred == InitHundred /\ [][NextHundred]_vars

\* Live capture: start on a host where opening the device may succeed.
\* start spawns the live source only if simulation is not configured and
\* PacketCapture::new succeeded; it spawns the simulated source otherwise.
\* A start that spawns the capture loop whenever simulation is not
\* configured, with or without a device.
StartDevice_without_fallback ==
    /\ started < limits.starts
    /\ \E use_simulation \in BOOLEAN, capture_ok \in BOOLEAN :
          source' = [source EXCEPT
              ![started + 1].pc = IF use_simulation THEN "spawned" ELSE "live_spawned",
              ![started + 1].origin =
                  IF use_simulation THEN "configured"
                  ELSE IF capture_ok THEN "device" ELSE "fallback"]
    /\ started' = started + 1
    /\ detection' = [detection EXCEPT ![started + 1].pc = "spawned"]
    /\ monitor' = [monitor EXCEPT ![started + 1] = "spawned"]
    /\ sampler' = [sampler EXCEPT ![started + 1] = "spawned"]
    /\ UNCHANGED <<limits, returned, engine, locks, cancelled, now, ml, reaper, queue, active_flows,
                   recent_alerts, stats, published, created, submitted, dropped>>

StartDevice ==
    /\ started < limits.starts
    /\ \E use_simulation \in BOOLEAN, capture_ok \in BOOLEAN :
          source' = [source EXCEPT
              ![started + 1].pc =
                  IF use_simulation \/ ~capture_ok THEN "spawned" ELSE "live_spawned",
              ![started + 1].origin =
                  IF use_simulation THEN "configured"
                  ELSE IF capture_ok THEN "device" ELSE "fallback"]
    /\ started' = started + 1
    /\ detection' = [detection EXCEPT ![started + 1].pc = "spawned"]
    /\ monitor' = [monitor EXCEPT ![started + 1] = "spawned"]
    /\ sampler' = [sampler EXCEPT ![started + 1] = "spawned"]
    /\ UNCHANGED <<limits, returned, engine, locks, cancelled, now, ml, reaper, queue, active_flows,
                   recent_alerts, stats, published, created, submitted, dropped>>

InitLive ==
    /\ InitCommon
    /\ limits = [starts |-> 1, packets |-> MaxLivePackets]
    /\ ml = {500}
    /\ detection = [g \in Generations |-> DetectionIdle]

NextLive ==
    \/ StartDevice
    \/ Shutdown
    \/ \E g \in Generations :
          \/ SourceStep(g)
          \/ LiveStep(g)
          \/ DetectionStep(g)

\* The runtime polls a task that is ready.
FairLive == InitLive /\ [][NextLive]_vars /\ WF_vars(DetectionStep(1))

SpecLive == InitLive /\ [][NextLive]_vars

\* The top-talkers list near its limit: the detection task of generation 1
\* is parked in recv, the list holds 18 to 20 addresses, and packets between
\* listed and new addresses come in.
TalkerIps ==
    <<"172.16.0.1", "172.16.0.2", "172.16.0.3", "172.16.0.4", "172.16.0.5",
      "172.16.0.6", "172.16.0.7", "172.16.0.8", "172.16.0.9", "172.16.0.10",
      "172.16.0.11", "172.16.0.12", "172.16.0.13", "172.16.0.14", "172.16.0.15",
      "172.16.0.16", "172.16.0.17", "172.16.0.18", "172.16.0.19", "172.16.0.20",
      "172.16.0.21", "172.16.0.22">>

\* k addresses in the order they were first seen, with their byte totals.
TalkersOf(k) == [i \in 1..k |-> <<TalkerIps[i], 100 * i>>]

TalkerPacket(src, dst, size) ==
    [src_ip |-> TalkerIps[src], src_port |-> 50000, dst_ip |-> TalkerIps[dst],
     dst_port |-> 443, protocol |-> "TCP", size |-> size, flags |-> <<"ACK">>]

TalkerPackets ==
    {TalkerPacket(21, 22, 64), TalkerPacket(21, 22, 1500), TalkerPacket(21, 1, 1500),
     TalkerPacket(1, 2, 64), TalkerPacket(22, 22, 1000)}

InitTalkers ==
    /\ started = 0
    /\ returned = NoReturn
    /\ locks = NoLocks
    /\ engine = MLEngine_new
    /\ cancelled = FALSE
    /\ now = 0
    /\ source = [g \in Generations |-> SourceIdle]
    /\ monitor = [g \in Generations |-> "none"]
    /\ sampler = [g \in Generations |-> "none"]
    /\ reaper = [g \in Generations |-> ReaperIdle]
    /\ queue = [g \in Generations |-> <<>>]
    /\ active_flows = [g \in Generations |-> NoFlows]
    /\ recent_alerts = [g \in Generations |-> <<>>]
    /\ \E k \in (TopTalkersMax - 2)..TopTalkersMax :
          stats = [SystemStats_new EXCEPT !.top_talkers = TalkersOf(k)]
    /\ published = <<>>
    /\ created = 0
    /\ submitted = <<>>
    /\ dropped = {}
    /\ limits = [starts |-> 0, packets |-> MaxTalkerPackets]
    /\ ml = {500}
    /\ detection = [g \in Generations |->
                       IF g = 1 THEN [DetectionIdle EXCEPT !.pc = "parked"]
                       ELSE DetectionIdle]

FeedTalkers ==
    /\ detection[1].pc = "parked"
    /\ queue[1] = <<>>
    /\ Len(submitted) < limits.packets
    /\ \E p \in TalkerPackets :
          /\ queue' = [queue EXCEPT ![1] = <<WithId(p, 60000 + Len(submitted) + 1)>>]
          /\ submitted' = Append(submitted, WithId(p, 60000 + Len(submitted) + 1))
    /\ UNCHANGED <<limits, returned, engine, locks, started, cancelled, now, ml, source, detection,
                   monitor, sampler, reaper, active_flows, recent_alerts, stats,
                   published, created, dropped>>

NextTalkers ==
    \/ FeedTalkers
    \/ DetectionIdleRecv(1)
    \/ DetectionWake(1)
    \/ DetectionRecv(1)
    \/ DetectionStats(1)
    \/ DetectionUpsert(1)
    \/ DetectionCount(1)
    \/ DetectionAnalyze(1)
    \/ DetectionGlobal(1)

SpecTalkers == InitTalkers /\ [][NextTalkers]_vars

\* ------------------------------------------------------------- MLEngine runs

\* Raw feature vectors of two dimensions: a byte count near 16 MB and a mean
\* packet size near 1000.
FeatureSamples ==
    {<<F32FromInt(16777216), F32FromInt(1000)>>,
     <<F32FromInt(16777218), F32FromInt(1001)>>,
     <<F32FromInt(16777220), F32FromInt(1000)>>,
     <<F32FromInt(16777216), F32FromInt(1003)>>}

\* A predict that updates the statistics with the flow's features before it
\* normalizes them.
PredictNormalize_after_update ==
    /\ engine.pc = "idle"
    /\ created < limits.packets
    /\ \E f \in FeatureSamples :
          engine' = [engine EXCEPT
              !.pc = "forward",
              !.raw = f,
              !.input = resize(normalize_features(
                                   update_statistics(engine.feature_stats, f), f),
                               InputSize)]
    /\ created' = created + 1
    /\ UNCHANGED <<limits, returned, locks, started, cancelled, now, ml, source, detection,
                   monitor, sampler, reaper, queue, active_flows, recent_alerts, stats,
                   published, submitted, dropped>>

\* predict, up to the tensor: extract_features, normalize_features under the
\* read lock, resize to the input size.
PredictNormalize ==
    /\ engine.pc = "idle"
    /\ created < limits.packets
    /\ \E f \in FeatureSamples :
          engine' = [engine EXCEPT
              !.pc = "forward",
              !.raw = f,
              !.input = resize(normalize_features(engine.feature_stats, f), InputSize)]
    /\ created' = created + 1
    /\ UNCHANGED <<limits, returned, locks, started, cancelled, now, ml, source, detection,
                   monitor, sampler, reaper, queue, active_flows, recent_alerts, stats,
                   published, submitted, dropped>>

\* The forward pass: a score, or Err, with which predict returns at once.
PredictForward ==
    /\ engine.pc = "forward"
    /\ \E outcome \in ml :
          engine' = IF outcome = PredictErr
                    THEN [engine EXCEPT !.pc = "idle", !.raw = <<>>, !.input = <<>>]
                    ELSE [engine EXCEPT !.pc = "update", !.score = outcome]
    /\ UNCHANGED <<limits, returned, locks, started, cancelled, now, ml, source, detection,
                   monitor, sampler, reaper, queue, active_flows, recent_alerts, stats,
                   published, created, submitted, dropped>>

\* update_statistics with the raw features, then Ok(prediction).
PredictUpdate ==
    /\ engine.pc = "update"
    /\ engine' = [engine EXCEPT
           !.pc = "idle",
           !.feature_stats = update_statistics(@, engine.raw),
           !.fed = Append(@, engine.raw)]
    /\ UNCHANGED <<limits, returned, locks, started, cancelled, now, ml, source, detection,
                   monitor, sampler, reaper, queue, active_flows, recent_alerts, stats,
                   published, created, submitted, dropped>>

InitMl ==
    /\ InitCommon
    /\ limits = [starts |-> 0, packets |-> MaxPredictions]
    /\ ml = {PredictErr, 500}
    /\ detection = [g \in Generations |-> DetectionIdle]

NextMl ==
    \/ PredictNormalize
    \/ PredictForward
    \/ PredictUpdate

SpecMl == InitMl /\ [][NextMl]_vars

\* The training buffer one to three examples short of its cap, or at it.
TrainingBuffers ==
    {[i \in 1..n |-> [features |-> <<F32FromInt(1000)>>, label |-> 0, timestamp |-> i]] :
        n \in (TrainingCap - 2)..TrainingCap}

AddTrainingExample ==
    /\ created < limits.packets
    /\ \E f \in {<<F32FromInt(1000)>>, <<F32FromInt(1001)>>}, is_anomaly \in BOOLEAN :
          engine' = [engine EXCEPT !.training_buffer =
              add_training_example(@,
                  [features |-> f, label |-> IF is_anomaly THEN 1 ELSE 0,
                   timestamp |-> engine.training_buffer[Len(engine.training_buffer)].timestamp + 1])]
    /\ created' = created + 1
    /\ UNCHANGED <<limits, returned, locks, started, cancelled, now, ml, source, detection,
                   monitor, sampler, reaper, queue, active_flows, recent_alerts, stats,
                   published, submitted, dropped>>

InitTraining ==
    /\ started = 0
    /\ returned = NoReturn
    /\ locks = NoLocks
    /\ \E buffer \in TrainingBuffers :
          engine = [MLEngine_new EXCEPT !.training_buffer = buffer]
    /\ cancelled = FALSE
    /\ now = 0
    /\ source = [g \in Generations |-> SourceIdle]
    /\ monitor = [g \in Generations |-> "none"]
    /\ sampler = [g \in Generations |-> "none"]
    /\ reaper = [g \in Generations |-> ReaperIdle]
    /\ queue = [g \in Generations |-> <<>>]
    /\ active_flows = [g \in Generations |-> NoFlows]
    /\ recent_alerts = [g \in Generations |-> <<>>]
    /\ stats = SystemStats_new
    /\ published = <<>>
    /\ created = 0
    /\ submitted = <<>>
    /\ dropped = {}
    /\ limits = [starts |-> 0, packets |-> MaxExamples]
    /\ ml = {500}
    /\ detection = [g \in Generations |-> DetectionIdle]

SpecTraining == InitTraining /\ [][AddTrainingExample]_vars

\* ------------------------------------------------------------------ lock runs

\* The operation task t is at, if it is in a program.
InProgram(t) == locks.pc[t] <= Len(locks.prog[t])
NextOp(t) == locks.prog[t][locks.pc[t]]

Writers(l) == {h \in locks.held[l] : h[2] = "write"}

\* A write lock is given when nobody holds the lock, a read lock when no
\* writer does.
Grantable(l, m) ==
    IF m = "write" THEN locks.held[l] = {} ELSE Writers(l) = {}

\* Where task t is after the operation it is at: in its program, or at the
\* next stage with no program in hand.
AfterOp(t, stages) ==
    IF locks.pc[t] < Len(locks.prog[t])
    THEN [locks EXCEPT !.pc[t] = @ + 1]
    ELSE [locks EXCEPT !.pc[t] = 1, !.prog[t] = <<>>,
                       !.stage[t] = (@ % Len(stages)) + 1]

\* One step of task t: take up a program of the stage it is at, or do the
\* next lock operation of the one it is in; an acquire waits until the lock is
\* given.
LockStep(t, stages) ==
    /\ IF ~InProgram(t)
       THEN \E p \in stages[locks.stage[t]] :
               locks' = [locks EXCEPT !.prog[t] = p, !.pc[t] = 1]
       ELSE IF NextOp(t).op = "acquire"
       THEN /\ Grantable(NextOp(t).lock, NextOp(t).mode)
            /\ locks' = [AfterOp(t, stages) EXCEPT
                   !.held[NextOp(t).lock] = @ \cup {<<t, NextOp(t).mode>>}]
       ELSE locks' = [AfterOp(t, stages) EXCEPT
                !.held[NextOp(t).lock] = {h \in @ : h[1] # t}]
    /\ UNCHANGED <<limits, returned, engine, started, cancelled, now, ml, source,
                   detection, monitor, sampler, reaper, queue, active_flows,
                   recent_alerts, stats, published, created, submitted, dropped>>

DetectionLocks == LockStep("detection", process_single_packet_locks)
ReaperLocks == LockStep("reaper", ReaperPrograms)
SourceLocks == LockStep("source", <<{stats_write_locks}>>)
SamplerLocks == LockStep("sampler", <<{stats_write_locks}>>)
ReaderLocks == LockStep("reader", ReaderPrograms)

InitLocks ==
    /\ InitCommon
    /\ limits = [starts |-> 0, packets |-> 0]
    /\ ml = {500}
    /\ detection = [g \in Generations |-> DetectionIdle]

NextLocks ==
    \/ DetectionLocks
    \/ ReaperLocks
    \/ SourceLocks
    \/ SamplerLocks
    \/ ReaderLocks

SpecLocks == InitLocks /\ [][NextLocks]_vars

\* ---------------------------------------------------------------- readers

\* recent.iter().take(limit): the oldest alerts, oldest first.
get_recent_alerts_oldest_first(ring, limit) ==
    [i \in 1..Min(limit, Len(ring)) |-> ring[i]]

\* DetectionEngine::get_recent_alerts: recent.iter().rev().take(limit) under
\* the read lock.
get_recent_alerts(ring, limit) ==
    [i \in 1..Min(limit, Len(ring)) |-> ring[Len(ring) + 1 - i]]

\* NetworkIDS::get_recent_alerts: the engine the last start stored in the
\* handle, or the empty list while detection_engine is None.
NetworkIDS_get_recent_alerts(limit) ==
    IF started = 0 THEN <<>> ELSE get_recent_alerts(recent_alerts[started], limit)

\* The caller is not holding a result: the pipeline is observed between
\* calls.
CallerIdle == returned = NoReturn

GetRecentAlerts ==
    /\ CallerIdle
    /\ \E limit \in 0..MaxLimit :
          returned' = [call |-> "get_recent_alerts", limit |-> limit,
                       value |-> NetworkIDS_get_recent_alerts(limit)]
    /\ UNCHANGED <<limits, engine, locks, started, cancelled, now, ml, source, detection,
                   monitor, sampler, reaper, queue, active_flows, recent_alerts, stats,
                   published, created, submitted, dropped>>

\* The caller has used the result.
CallerDone ==
    /\ ~CallerIdle
    /\ returned' = NoReturn
    /\ UNCHANGED <<limits, engine, locks, started, cancelled, now, ml, source, detection,
                   monitor, sampler, reaper, queue, active_flows, recent_alerts, stats,
                   published, created, submitted, dropped>>

\* The pipeline of Spec with a reader on the handle.
Pipeline == CallerIdle /\ Next

NextRead ==
    \/ Pipeline
    \/ GetRecentAlerts
    \/ CallerDone

\* NetworkIDS::new, then one start whose source makes MaxReadPackets packets.
InitRead ==
    /\ InitCommon
    /\ limits = [starts |-> 1, packets |-> MaxReadPackets]
    /\ ml = PredictOutcomes
    /\ detection = [g \in Generations |-> DetectionIdle]

SpecRead == InitRead /\ [][NextRead]_vars

\* ------------------------------------------------------------------ claims

SubmittedSizes == [i \in 1..Len(submitted) |-> submitted[i].size]

\* C1: packets are counted exactly once, at ingest.  Whenever no source is
\* between its stats section and its try_send, packets_processed is the
\* number of packets submitted (enqueued, dropped or refused alike) and
\* bytes_processed is the sum of their sizes, however many of them the
\* detector has consumed.
C1_CountedOnceAtIngest ==
    (\A g \in Generations : source[g].pc # "send")
        => /\ stats.packets_processed = Len(submitted)
           /\ stats.bytes_processed = SumSeq(SubmittedSizes)

QueuedIds(g) == {queue[g][i].id : i \in 1..Len(queue[g])}

\* An enqueue attempt of generation g on a full queue.
FullQueueAttempt(g) ==
    /\ source[g].pc = "send"
    /\ source'[g] # source[g]
    /\ Len(queue[g]) >= QueueCapacity
    /\ detection[g].pc # "done"

\* C2: the queue never holds more than its capacity; a source that is at
\* its enqueue attempt can always take it (it never waits for room); an
\* attempt on a full queue leaves the queue as it is, discards the packet
\* and goes on; a discarded packet is never in the queue afterwards.
C2_BoundedNonBlockingQueue ==
    /\ [](\A g \in Generations :
             /\ Len(queue[g]) <= QueueCapacity
             /\ dropped \cap QueuedIds(g) = {}
             /\ source[g].pc = "send" => ENABLED SourceSend(g))
    /\ [][\A g \in Generations :
             FullQueueAttempt(g)
                 => /\ queue'[g] = queue[g]
                    /\ source[g].pkt.id \in dropped'
                    /\ source'[g].pc = "sleep1"]_vars

\* A packet was discarded on a full queue and the source went on.
C2_Witness ==
    /\ dropped # {}
    /\ Len(queue[1]) = QueueCapacity
    /\ source[1].pc = "sleep1"

TaskSpawned(g) ==
    \/ source[g].pc # "none"
    \/ detection[g].pc # "none"
    \/ monitor[g] # "none"
    \/ sampler[g] # "none"

\* C3: start is guarded against double-start.  A second call on a started
\* handle does not succeed and no task of a second generation (source,
\* detection, stats log, sampler) ever exists.
C3_SecondStartRejected ==
    /\ started <= 1
    /\ \A g \in Generations : g > 1 => ~TaskSpawned(g)

AllTasksDone(g) ==
    /\ source[g].pc = "done"
    /\ detection[g].pc = "done"
    /\ monitor[g] = "done"
    /\ sampler[g] = "done"

\* C4: once shutdown has been called on a started handle, each of the four
\* tasks of every call of start eventually terminates.
C4_TasksTerminate ==
    \A g \in Generations : (cancelled /\ started >= g) ~> AllTasksDone(g)

\* The four tasks have ended after a shutdown that found the pipeline at
\* work: packets had been submitted and a packet was left in the channel
\* or in the flow table.
C4_Witness ==
    /\ cancelled
    /\ started = 1
    /\ AllTasksDone(1)
    /\ submitted # <<>>
    /\ active_flows[1] # NoFlows

\* C5: no alert is published after shutdown has returned: with the token
\* cancelled, no step sends on the broadcast channel, pushes on the ring
\* or counts a threat in the statistics.
C5_NoAlertAfterShutdown ==
    [][cancelled => /\ published' = published
                    /\ recent_alerts' = recent_alerts
                    /\ stats'.threats_detected = stats.threats_detected
                    /\ stats'.alert_counts = stats.alert_counts]_vars

\* A tick of the reaper of generation g.
ReaperTicks(g) ==
    /\ reaper[g].pc \in {"spawned", "waiting"}
    /\ reaper'[g].pc # reaper[g].pc

\* C6: the reaper checks the token at every tick: a tick taken with the
\* token cancelled ends the task, it does not start another cleanup.
C6_ReaperObeysToken ==
    [][\A g \in Generations :
          (cancelled /\ ReaperTicks(g)) => reaper'[g].pc = "done"]_vars

RECURSIVE SumOver(_, _)
SumOver(f, S) ==
    IF S = {} THEN 0
    ELSE LET x == CHOOSE y \in S : TRUE IN f[x] + SumOver(f, S \ {x})

\* C7: in every state of the statistics, threats_detected is the sum of
\* alert_counts over the severities.
C7_ThreatCountConserved ==
    stats.threats_detected = SumOver(stats.alert_counts, Severities)

\* Two alerts have been counted while the source was still writing packet
\* statistics.
C7_Witness ==
    /\ stats.threats_detected >= 2
    /\ stats.alert_counts["Medium"] >= 2
    /\ \E g \in Generations : source[g].pc = "send"

PublishedWith(severity) ==
    Cardinality({i \in 1..Len(published) : published[i].severity = severity})

\* C8: an alert is counted before it is published: at every moment the
\* alerts published so far are at most threats_detected, and those of each
\* severity at most that severity's bucket.
C8_CountedBeforePublished ==
    /\ Len(published) <= stats.threats_detected
    /\ \A s \in Severities : PublishedWith(s) <= stats.alert_counts[s]

\* An alert has been published, and another is counted but not yet published.
C8_Witness ==
    /\ Len(published) >= 1
    /\ stats.threats_detected > Len(published)

HasSynFin(p) == Contains(p.flags, "SYN") /\ Contains(p.flags, "FIN")

\* The Suspicious alert the flag rule gives for a flow made of `packets`.
FlagAlertFor(packets) ==
    \E i \in 1..Len(published) :
        /\ published[i].threat_type = "Suspicious"
        /\ published[i].severity = "Medium"
        /\ published[i].confidence = SuspiciousConfidence
        /\ published[i].raw_packets = [j \in 1..Len(packets) |-> packets[j].id]

\* The packets of flow k of generation g whose processing is over.
Processed(g, k) ==
    {i \in 1..Len(active_flows[g][k].packets) :
        active_flows[g][k].packets[i].id # detection[g].pkt.id}

\* C9: the flag rule is evaluated on the first packet of a flow too: once a
\* packet carrying SYN and FIN that created a flow has been processed, the
\* Suspicious alert (Medium, confidence 0.6) on that one packet has been
\* published.
C9_FirstPacketFlagAlert ==
    \A g \in Generations : \A k \in DOMAIN active_flows[g] :
        (1 \in Processed(g, k) /\ HasSynFin(active_flows[g][k].packets[1]))
            => FlagAlertFor(SubSeq(active_flows[g][k].packets, 1, 1))

SynBearing(packets) ==
    Cardinality({i \in 1..Len(packets) : Contains(packets[i].flags, "SYN")})

FlagUnion(packets) ==
    UNION {{packets[i].flags[j] : j \in 1..Len(packets[i].flags)} : i \in 1..Len(packets)}

\* C10: when the processing of the i-th packet of a flow (i > 1) is over, a
\* Suspicious alert on the flow's first i packets has been published exactly
\* if more than 10 of them bear SYN or their flags together hold SYN and FIN.
C10_SynCountRule ==
    \A k \in DOMAIN active_flows[1] : \A i \in Processed(1, k) \ {1} :
        LET prefix == SubSeq(active_flows[1][k].packets, 1, i)
        IN  FlagAlertFor(prefix)
                <=> \/ SynBearing(prefix) > SynThreshold
                    \/ {"SYN", "FIN"} \subseteq FlagUnion(prefix)

\* A step of cleanup_expired_flows of the engine of SpecTable.
CleanupStep == CleanupRunning /\ reaper'[1] # reaper[1]

\* C11: a cleanup that runs with no concurrent upsert removes exactly the
\* expired flows: every flow a step of it removes has been idle for more
\* than the timeout, the flows it keeps are kept as they are, and when it
\* is over no flow idle for more than the timeout is left.
C11_CleanupRemovesExpired ==
    [][CleanupStep =>
          /\ \A k \in DOMAIN active_flows[1] :
                 IF k \in DOMAIN active_flows'[1]
                 THEN active_flows'[1][k] = active_flows[1][k]
                 ELSE now - active_flows[1][k].last_seen > FlowTimeout
          /\ DOMAIN active_flows'[1] \subseteq DOMAIN active_flows[1]
          /\ reaper'[1].pc = "waiting" =>
                 \A k \in DOMAIN active_flows'[1] :
                     now - active_flows'[1][k].last_seen <= FlowTimeout]_vars

\* Every packet sent has been processed and the cleanup task is between ticks.
AtRest ==
    /\ detection[1].pc \in {"spawned", "recv", "parked"}
    /\ queue[1] = <<>>
    /\ ~CleanupRunning

\* A cleanup has removed the flow of a processed packet (idle for 301 s)
\* and has kept another flow, idle for less than the timeout.
C11_Witness ==
    /\ AtRest
    /\ reaper[1].pc = "waiting"
    /\ now = 301
    /\ stats.packets_processed = Len(submitted)
    /\ \E i \in 1..Len(submitted) : FlowId(submitted[i]) \notin DOMAIN active_flows[1]
    /\ \E k \in DOMAIN active_flows[1] : now - active_flows[1][k].last_seen = 151

\* C12: Stats.active_flows mirrors the table: whenever the engine is not in
\* the middle of a packet and the cleanup task is not in the middle of a
\* cleanup, it is the number of flows in the table.
C12_ActiveFlowsMirror ==
    AtRest => stats.active_flows = FlowCount(1)

\* run_global_analysis has returned; what it sent is in `published`.
AnalysisOver == detection[1].pc = "finished"

AlertsOf(type) == SelectSeq(published, LAMBDA a : a.threat_type = type)

Elements(s) == {s[i] : i \in 1..Len(s)}

\* The distinct destination ports of the flows of source `ip` in the table.
ScannedPorts(ip) ==
    {f.dst_port : f \in {x \in FlowSnapshot(1) : x.src_ip = ip /\ x.dst_port # -1}}

Scanners ==
    {ip \in {f.src_ip : f \in FlowSnapshot(1)} : Cardinality(ScannedPorts(ip)) >= 5}

\* C13: the port-scan rule gives an alert exactly if some source has at
\* least 5 distinct destination ports among the flows; the alert names such
\* a source, is High for more than 20 distinct ports, Medium for more than
\* 10, else Low, its confidence is a hundredth of the number of ports, and
\* its affected_ports hold every destination port of that source.
C13_PortScanRule ==
    AnalysisOver =>
        /\ Len(AlertsOf("PortScan")) = IF Scanners = {} THEN 0 ELSE 1
        /\ \A a \in Elements(AlertsOf("PortScan")) :
               LET n == Cardinality(ScannedPorts(a.source_ip))
               IN  /\ a.source_ip \in Scanners
                   /\ a.severity = IF n > 20 THEN "High"
                                   ELSE IF n > 10 THEN "Medium" ELSE "Low"
                   /\ a.confidence = n * 10
                   /\ ScannedPorts(a.source_ip) \subseteq Elements(a.affected_ports)

\* Nine ports from 203.0.113.7 alone: one Low alert, confidence 0.09, with
\* the nine ports.
C13_Witness ==
    /\ AnalysisOver
    /\ Len(published) = 1
    /\ published[1].threat_type = "PortScan"
    /\ published[1].source_ip = "203.0.113.7"
    /\ published[1].severity = "Low"
    /\ published[1].confidence = 90
    /\ Elements(published[1].affected_ports) = 1..9

FlowsTo(ip) == {f \in FlowSnapshot(1) : f.dst_ip = ip}

PacketsTo(ip) == SumOver([f \in FlowsTo(ip) |-> Len(f.packets)], FlowsTo(ip))

BytesTo(ip) == SumOver([f \in FlowsTo(ip) |-> f.byte_count], FlowsTo(ip))

Flooded ==
    {ip \in {f.dst_ip : f \in FlowSnapshot(1)} :
        PacketsTo(ip) > 1000 \/ BytesTo(ip) > 10000000}

\* C14: the DDoS rule gives an alert exactly if the packets summed per
\* destination exceed 1,000 or the bytes 10 MB for some destination; the
\* alert's target is such a destination and it is Critical above 5,000
\* packets or 50 MB, High above 2,000 packets or 20 MB, else Medium.
C14_DDoSRule ==
    AnalysisOver =>
        /\ Len(AlertsOf("DDoS")) = IF Flooded = {} THEN 0 ELSE 1
        /\ \A a \in Elements(AlertsOf("DDoS")) :
               LET pkts == PacketsTo(a.target_ip)
                   bytes == BytesTo(a.target_ip)
               IN  /\ a.target_ip \in Flooded
                   /\ a.severity =
                          IF pkts > 5000 \/ bytes > 50000000 THEN "Critical"
                          ELSE IF pkts > 2000 \/ bytes > 20000000 THEN "High"
                          ELSE "Medium"

\* 1,200 packets of 1,400 bytes to 10.0.0.9: one Medium alert, confidence
\* 0.068.
C14_Witness ==
    /\ AnalysisOver
    /\ Len(published) = 1
    /\ published[1].threat_type = "DDoS"
    /\ published[1].target_ip = "10.0.0.9"
    /\ published[1].severity = "Medium"
    /\ published[1].confidence = 68
    /\ PacketsTo("10.0.0.9") = 1200
    /\ BytesTo("10.0.0.9") = 1680000

Flows1 == {active_flows[1][k] : k \in DOMAIN active_flows[1]}

\* C15: for every flow in the table, byte_count is the sum of the sizes of
\* the packets in its list, and the list is not empty.
C15_ByteCount ==
    \A f \in Flows1 :
        /\ Len(f.packets) >= 1
        /\ f.byte_count = SumSeq([i \in 1..Len(f.packets) |-> f.packets[i].size])

\* A flow of three packets of two sizes.
C15_Witness ==
    \E f \in Flows1 :
        /\ Len(f.packets) = 3
        /\ Cardinality({f.packets[i].size : i \in 1..3}) = 2

\* C16: for every flow in the table, flags_seen names no flag twice and
\* names exactly the flags of the packets in the flow's list.
C16_FlagsUnion ==
    \A f \in Flows1 :
        /\ \A i, j \in 1..Len(f.flags_seen) :
               f.flags_seen[i] = f.flags_seen[j] => i = j
        /\ Elements(f.flags_seen) = FlagUnion(f.packets)

\* A flow whose packets brought SYN twice and FIN once.
C16_Witness ==
    \E f \in Flows1 :
        /\ SynBearing(f.packets) = 2
        /\ Len(f.packets) = 3
        /\ f.flags_seen = <<"SYN", "FIN">>

SameTuple(p, q) ==
    /\ p.src_ip = q.src_ip
    /\ p.src_port = q.src_port
    /\ p.dst_ip = q.dst_ip
    /\ p.dst_port = q.dst_port
    /\ p.protocol = q.protocol

\* C17: two packets in the table are in the same flow exactly if they agree
\* on source address and port, destination address and port, and protocol;
\* a packet in the reverse direction is in another flow.
C17_DirectionalTuple ==
    \A k1, k2 \in DOMAIN active_flows[1] :
        \A i \in 1..Len(active_flows[1][k1].packets) :
            \A j \in 1..Len(active_flows[1][k2].packets) :
                (k1 = k2) <=> SameTuple(active_flows[1][k1].packets[i],
                                        active_flows[1][k2].packets[j])

\* Two packets of one direction share a flow; the answer has its own.
C17_Witness ==
    /\ \E f \in Flows1 : Len(f.packets) = 2 /\ f.src_ip = PktSyn.src_ip
    /\ \E f \in Flows1 : Len(f.packets) = 1 /\ f.src_ip = PktRev.src_ip
    /\ AtRest

\* ------------------------------------------------------------------- C18

\* What the channel took, in the order the source offered it: every try_send
\* that was not answered Full.
Accepted == SelectSeq(submitted, LAMBDA p : p.id \notin dropped)

AcceptedOf(k) == SelectSeq(Accepted, LAMBDA p : FlowId(p) = k)

IsPrefix(s, t) == Len(s) <= Len(t) /\ s = SubSeq(t, 1, Len(s))

\* The packet process_single_packet holds and has not yet put in the table.
InHand(g, p) == detection[g].pc \in {"stats", "upsert"} /\ detection[g].pkt = p

InQueue(g, p) == \E i \in 1..Len(queue[g]) : queue[g][i] = p

InTable(g, p) ==
    /\ FlowId(p) \in DOMAIN active_flows[g]
    /\ Contains(active_flows[g][FlowId(p)].packets, p)

C19_CountersMonotonic ==
    [][/\ stats'.packets_processed >= stats.packets_processed
       /\ stats'.bytes_processed >= stats.bytes_processed
       /\ stats'.threats_detected >= stats.threats_detected]_vars

\* The sampler has written, after the source and the detection task counted
\* packets and an alert was counted.
C19_Witness ==
    /\ stats.cpu_usage \in CpuSamples
    /\ stats.packets_processed >= 2
    /\ stats.bytes_processed > 0
    /\ stats.threats_detected >= 1

\* ------------------------------------------------------------------- C20

\* The alerts send_alert has put in the ring so far, oldest first: those
\* already sent on the broadcast channel, then the one between the ring
\* section and the send.
Emitted(g) ==
    published \o (IF detection[g].pc = "alert_send"
                  THEN <<Head(detection[g].pending)>> ELSE <<>>)

LastOf(s, n) == SubSeq(s, Len(s) - n + 1, Len(s))

ReadStep == returned'.call = "get_recent_alerts" /\ CallerIdle

\* The ring of the engine the handle holds; none before the first start.
HandleRing == IF started = 0 THEN <<>> ELSE recent_alerts[started]

\* C21: get_recent_alerts(limit) returns min(limit, ring size) alerts, newest
\* first: the i-th returned alert is the i-th latest alert emitted.  The call
\* leaves the ring as it was, and on a handle that was never started it
\* returns the empty list.
C21_RecentAlertsNewestFirst ==
    [][ReadStep =>
          LET r == returned'.value
              E == Emitted(1)
          IN  /\ Len(r) = Min(returned'.limit, Len(HandleRing))
              /\ \A i \in 1..Len(r) : r[i] = E[Len(E) + 1 - i]
              /\ recent_alerts' = recent_alerts
              /\ started = 0 => r = <<>>]_vars

\* A reader asked for one alert of a ring that holds two different ones and
\* got the later one.
C21_Witness ==
    /\ returned.call = "get_recent_alerts"
    /\ returned.limit = 1
    /\ Len(HandleRing) = 2
    /\ HandleRing[1] # HandleRing[2]
    /\ returned.value = <<HandleRing[2]>>

\* ------------------------------------------------------------------- C22

\* Every alert send_alert has been given: in the detection task's hands, in
\* a ring, or sent.
AlertsSeen ==
    Elements(published)
        \cup UNION {Elements(recent_alerts[g]) : g \in Generations}
        \cup UNION {Elements(detection[g].pending) : g \in Generations}

ThreatTypes == {"Anomalous", "Suspicious", "PortScan", "DDoS"}

\* C22: every alert of the ML stage, the flag rule, the port-scan rule and
\* the DDoS rule has a non-empty raw_packets list.
C22_AlertHasPackets ==
    \A a \in AlertsSeen : a.threat_type \in ThreatTypes /\ a.raw_packets # <<>>

\* All four detectors have sent an alert.
C22_Witness == {a.threat_type : a \in Elements(published)} = ThreatTypes

\* ------------------------------------------------------------------- C23

\* s holds members of `order`, each at most once, in the order of `order`.
Position(order, x) == CHOOSE i \in 1..Len(order) : order[i] = x

InOrderOnce(s, order) ==
    /\ \A i \in 1..Len(s) : Contains(order, s[i])
    /\ \A i, j \in 1..Len(s) : i < j => Position(order, s[i]) < Position(order, s[j])

\* The stage an alert comes from: the per-flow stage for the ML alert and the
\* flag alert.
StageOf(type) == IF type \in {"Anomalous", "Suspicious"} THEN "per-flow" ELSE type

SentStages(g) == [i \in 1..Len(detection[g].sent) |-> StageOf(detection[g].sent[i])]

\* C23 as stated: one packet sends at most one per-flow alert, at most one
\* PortScan and at most one DDoS alert, in that order.
C23_OnePerFlowAlert ==
    InOrderOnce(SentStages(1), <<"per-flow", "PortScan", "DDoS">>)

\* C23, amended: one packet sends at most one Anomalous, one Suspicious, one
\* PortScan and one DDoS alert, in that order: the per-flow stage may send
\* two alerts, the ML alert and then the flag alert.
C23_AlertOrder ==
    InOrderOnce(detection[1].sent, <<"Anomalous", "Suspicious", "PortScan", "DDoS">>)

\* One packet has raised all four.
C23_Witness ==
    detection[1].sent = <<"Anomalous", "Suspicious", "PortScan", "DDoS">>

\* ------------------------------------------------------------------- C24

\* start_capture returned Err: MAX_ERRORS read errors in a row.
SourceFailed(g) == source[g].pc = "done" /\ source[g].error_count >= MAX_ERRORS

\* The detection task has ended with nothing left behind: every packet the
\* channel took is in its flow, in the order it was offered.
EndedDrained(g) ==
    /\ detection[g].pc = "done"
    /\ queue[g] = <<>>
    /\ \A i \in 1..Len(Accepted) : InTable(g, Accepted[i])
    /\ \A k \in DOMAIN active_flows[g] : active_flows[g][k].packets = AcceptedOf(k)

SimulatedPlaces == {"spawned", "stats", "send", "sleep1", "sleep10", "endbatch", "done"}

\* C25: a start without configured simulation whose capture device could
\* not be opened has returned Ok, runs the simulated source, and has spawned
\* the detection task, the stats-log task and the sampler, as a start with
\* simulation configured does.
C25_FallbackToSimulation ==
    \A g \in Generations :
        source[g].origin \in {"fallback", "configured"} =>
            /\ started >= g
            /\ source[g].pc \in SimulatedPlaces
            /\ source[g].packet_count = 0 /\ source[g].error_count = 0
            /\ detection[g].pc # "none"
            /\ monitor[g] # "none"
            /\ sampler[g] # "none"

\* After a failed open the simulated source has put a packet in the channel
\* and the detection task has taken it.
C25_Witness ==
    /\ source[1].origin = "fallback"
    /\ source[1].total_sent >= 1
    /\ active_flows[1] # NoFlows

\* ------------------------------------------------------------------- C26

\* One turn of the capture loop of generation g, by what it read.
ReadTurn(g) == source[g].pc = "live_read" /\ source'[g] # source[g]

ReadFrame(g) == ReadTurn(g) /\ source'[g].packet_count = source[g].packet_count + 1

\* `created` counts the frames that parsed.
ReadPacket(g) == ReadFrame(g) /\ created' = created + 1

ReadUndecodable(g) == ReadFrame(g) /\ created' = created

ReadError(g) ==
    /\ ReadTurn(g)
    /\ ~ReadFrame(g)
    /\ source'[g].error_count = source[g].error_count + 1

Aborted(g) == ReadTurn(g) /\ source'[g].pc = "done"

\* C26: the count of consecutive failed frames goes up by one with a read
\* error and with a frame that fails to decode, back to zero with a frame
\* that is handled, and the source aborts exactly when the count reaches
\* 100.
C26_AbortAtHundredFailures ==
    [][\A g \in Generations :
          /\ ReadError(g) \/ ReadUndecodable(g) =>
                 /\ source'[g].error_count = source[g].error_count + 1
                 /\ Aborted(g) <=> source'[g].error_count >= MAX_ERRORS
          /\ ReadPacket(g) => source'[g].error_count = 0 /\ ~Aborted(g)
          /\ Aborted(g) => source'[g].error_count >= MAX_ERRORS]_vars

\* ------------------------------------------------------------------- C27

\* The step of the per-flow stage for the packet in hand.
AnalyzeStep(g) == detection[g].pc = "analyze" /\ detection'[g].pc # "analyze"

PacketFlow(g) == active_flows[g][FlowId(detection[g].pkt)]

\* C27: when predict gives Err for the packet's flow, no Anomalous alert is
\* sent for the packet, the task does not end on the error, and the packet
\* goes on: the flag rule gives the alerts of the per-flow stage and the
\* global stage comes next.
C27_PredictErrorIsSkipped ==
    /\ [](\A g \in Generations :
             detection[g].predict_err =>
                 /\ ~Contains(detection[g].sent, "Anomalous")
                 /\ \A i \in 1..Len(detection[g].pending) :
                        detection[g].pending[i].threat_type # "Anomalous"
                 /\ detection[g].pc # "done")
    /\ [][\A g \in Generations :
             AnalyzeStep(g) /\ detection'[g].predict_err =>
                 /\ detection'[g].pending = detect_suspicious_flags(PacketFlow(g))
                 /\ detection'[g].resume = "global"
                 /\ detection'[g].pc \in {"global", send_alert_order[1]}]_vars

\* predict failed for a packet, and the flag rule, the port-scan rule and the
\* DDoS rule have sent their alerts for it.
C27_Witness ==
    /\ detection[1].predict_err
    /\ detection[1].sent = <<"Suspicious", "PortScan", "DDoS">>

\* ------------------------------------------------------------------- C28

\* Every packet handed to generation g has been through process_single_packet
\* and the task is back in recv.
Settled(g) ==
    /\ detection[g].pc = "parked"
    /\ detection[g].pkt = NoPacket
    /\ queue[g] = <<>>
    /\ submitted # <<>>

\* The alerts sent for the last packet: `sent` and `published` grow together.
LastSent(g) ==
    SubSeq(published, Len(published) - Len(detection[g].sent) + 1, Len(published))

GlobalSent(g) == {a \in Elements(LastSent(g)) : a.threat_type \in {"PortScan", "DDoS"}}

\* C28: at the end of a packet the port-scan rule and the DDoS rule give
\* their alerts exactly when the flow table then holds a multiple of 100
\* flows, and both are computed from the flows the table holds at that
\* moment; with any other size no global alert is sent for the packet.
C28_GlobalRulesEveryHundred ==
    Settled(1) =>
        IF FlowCount(1) % GlobalAnalysisEvery = 0
        THEN /\ Contains(detection[1].sent, "PortScan") <=> Scanners # {}
             /\ Contains(detection[1].sent, "DDoS") <=> Flooded # {}
             /\ \A a \in GlobalSent(1) :
                    /\ a.threat_type = "PortScan" =>
                           /\ a.source_ip \in Scanners
                           /\ ScannedPorts(a.source_ip) \subseteq Elements(a.affected_ports)
                    /\ a.threat_type = "DDoS" => a.target_ip \in Flooded
        ELSE GlobalSent(1) = {}

\* A packet that opened the hundredth flow has been through the global
\* stage, and both rules have sent an alert for it.
C28_Witness ==
    /\ FlowCount(1) = GlobalAnalysisEvery
    /\ FlowId(FillerPacket(0)) \in DOMAIN active_flows[1]
    /\ Settled(1)
    /\ detection[1].sent = <<"PortScan", "DDoS">>

\* ------------------------------------------------------------------- C29

\* C29: a frame that fails to decode is dropped without effect: the turn of
\* the loop that read it leaves SystemStats and the channel as they were,
\* takes no packet in hand and goes back to the top of the loop; so only
\* frames that parsed are counted (once by the source, once by the detector)
\* or offered to the channel.
C29_UndecodableFrameDropped ==
    /\ [][\A g \in Generations :
             ReadUndecodable(g) =>
                 /\ UNCHANGED <<stats, queue, submitted, dropped>>
                 /\ source'[g].pkt = NoPacket
                 /\ source'[g].pc = LoopTop(source'[g].packet_count)]_vars
    /\ [](/\ Len(submitted) <= created
          /\ stats.packets_processed <= 2 * created
          /\ stats.protocol_distribution["TCP"] <= 2 * created)

\* The loop has read a frame that did not decode and then a packet, which
\* was counted and sent.
C29_Witness ==
    /\ source[1].packet_count = 2
    /\ created = 1
    /\ source[1].total_sent = 0
    /\ Len(queue[1]) + Len(submitted) >= 1
    /\ stats.packets_processed >= 1

\* ------------------------------------------------------------------- C30

\* The first write section on SystemStats for the packet in hand.
StatsStep(g) == detection[g].pc = "stats" /\ detection'[g].pc # "stats"

TalkerAddrs(tt) == {tt[i][1] : i \in 1..Len(tt)}

BytesIn(tt, ip) ==
    IF ip \in TalkerAddrs(tt)
    THEN tt[CHOOSE i \in 1..Len(tt) : tt[i][1] = ip][2]
    ELSE 0

\* What an address has after the packet p: its bytes so far, and the size of
\* p when it is the source or the destination of p.
BytesWith(tt, p, ip) ==
    BytesIn(tt, ip) + IF ip \in {p.src_ip, p.dst_ip} THEN p.size ELSE 0

\* C30: after every packet-processing step top_talkers holds at most 20
\* entries; a step that takes it past 20 addresses leaves the 10 entries
\* with the highest byte totals, and any other step leaves every address
\* with its total.
C30_TopTalkersBounded ==
    /\ [](Len(stats.top_talkers) <= TopTalkersMax)
    /\ [][\A g \in Generations :
             StatsStep(g) =>
                 LET tt == stats.top_talkers
                     p == detection[g].pkt
                     addrs == TalkerAddrs(tt) \cup {p.src_ip, p.dst_ip}
                     kept == TalkerAddrs(stats'.top_talkers)
                 IN  /\ Cardinality(kept) = Len(stats'.top_talkers)
                     /\ kept \subseteq addrs
                     /\ \A ip \in kept :
                            BytesIn(stats'.top_talkers, ip) = BytesWith(tt, p, ip)
                     /\ IF Cardinality(addrs) > TopTalkersMax
                        THEN /\ Len(stats'.top_talkers) = TopTalkersKeep
                             /\ \A ip \in kept, out \in addrs \ kept :
                                    BytesWith(tt, p, ip) >= BytesWith(tt, p, out)
                        ELSE kept = addrs]_vars

\* A packet took the list past 20 entries and it was cut to 10, one of them
\* an address the packet brought in.
C30_Witness ==
    /\ Len(stats.top_talkers) = TopTalkersKeep
    /\ stats.packets_processed >= 1
    /\ TalkerIps[21] \in TalkerAddrs(stats.top_talkers)

\* ------------------------------------------------------------------- C31

\* C31: within one minute the pipeline emits at most max_alerts_per_minute
\* alerts, however many packets trigger a rule.
C31_AlertsRateLimited ==
    now < 60 => Len(published) <= max_alerts_per_minute

\* ------------------------------------------------------------------ C32

\* The statistics after update_statistics was applied to each vector of a
\* sequence, in order, starting from the default.
RECURSIVE StatsAfter(_)
StatsAfter(vs) ==
    IF vs = <<>>
    THEN FeatureStatistics_default
    ELSE update_statistics(StatsAfter(SubSeq(vs, 1, Len(vs) - 1)), vs[Len(vs)])

\* C32: predict normalizes a flow's features with the statistics of the
\* successful predictions before it, and only then updates them: the input of
\* the k-th successful prediction is normalized with the first k-1 vectors, and
\* update_count is the number of successful predictions.
C32_NormalizeBeforeUpdate ==
    /\ engine.feature_stats.update_count = Len(engine.fed)
    /\ engine.pc \in {"forward", "update"} =>
          engine.input =
              resize(normalize_features(StatsAfter(engine.fed), engine.raw), InputSize)
    /\ engine.pc = "idle" /\ engine.input # <<>> =>
          /\ engine.raw = engine.fed[Len(engine.fed)]
          /\ engine.input =
                 resize(normalize_features(
                            StatsAfter(SubSeq(engine.fed, 1, Len(engine.fed) - 1)),
                            engine.raw), InputSize)

\* A third successful prediction whose normalized input is not its raw input.
C32_Witness ==
    /\ engine.pc = "idle"
    /\ Len(engine.fed) = 3
    /\ engine.input # <<>>
    /\ engine.input # resize(engine.raw, InputSize)

\* ------------------------------------------------------------------ C33

\* C33: while update_count is 0, normalize_features returns its input: the
\* tensor of a prediction made before the first update holds the raw features.
C33_IdentityBeforeFirstUpdate ==
    engine.feature_stats.update_count = 0 =>
        /\ \A f \in FeatureSamples : normalize_features(engine.feature_stats, f) = f
        /\ engine.pc = "forward" => engine.input = resize(engine.raw, InputSize)

\* A second call of predict that still finds update_count at 0, the first one
\* having failed in the forward pass.
C33_Witness ==
    /\ engine.pc = "forward"
    /\ engine.feature_stats.update_count = 0
    /\ created = 2

\* ------------------------------------------------------------------ C34

\* The integer an f32 holds, for the integer-valued features of FeatureSamples.
IntOf(x) == IF x.e >= 0 THEN x.m * Pow2(x.e) ELSE x.m \div Pow2(0 - x.e)

\* The values fed to update_statistics in dimension i, in order.
FedValues(i) == [k \in 1..Len(engine.fed) |-> IntOf(engine.fed[k][i])]

\* |x - S / N| <= 1e-5 for an f32 x, in integers: for x = m * 2^-k the
\* difference is |N * m - S * 2^k| / (N * 2^k).  A side too large for the
\* comparison is further than that from the other.
MeanWithin(x, S, N) ==
    IF x.m = 0 THEN Abs(S) * 100000 <= N
    ELSE IF x.e >= 0
    THEN x.e <= 3 /\ N * x.m * Pow2(x.e) = S
    ELSE LET k == 0 - x.e
         IN  IF k > 24 THEN S = 0 /\ k > 41
             ELSE /\ Abs(S) < Pow2(30 - k)
                  /\ LET D == Abs(N * x.m - S * Pow2(k))
                     IN  D <= 21474 /\ D * 100000 <= N * Pow2(k)

RECURSIVE MaxAbs(_)
MaxAbs(vs) ==
    IF vs = <<>> THEN 0
    ELSE LET rest == MaxAbs(SubSeq(vs, 2, Len(vs)))
         IN  IF Abs(vs[1]) > rest THEN Abs(vs[1]) ELSE rest

\* |x - S / N| <= 1e-5 * V for an f32 x, in integers as in MeanWithin.  Where a
\* side is too large for the comparison the smaller tolerance is asked.
MeanWithinRelative(x, S, N, V) ==
    IF x.m = 0 THEN Abs(S) <= 21474 /\ Abs(S) * 100000 <= N * V
    ELSE IF x.e >= 0
    THEN /\ x.e <= 3 /\ V < Pow2(25)
         /\ LET D == Abs(N * x.m * Pow2(x.e) - S)
            IN  D <= 21474 /\ D * 100000 <= N * V
    ELSE LET k == 0 - x.e
         IN  /\ k <= 24
             /\ Abs(S) < Pow2(30 - k)
             /\ LET D == Abs(N * x.m - S * Pow2(k))
                IN  IF N * V >= Pow2(30 - k)
                    THEN D <= 10737
                    ELSE D <= 21474 /\ D * 100000 <= N * V * Pow2(k)

RECURSIVE SumSquares(_)
SumSquares(ws) ==
    IF ws = <<>> THEN 0
    ELSE ws[1] * ws[1] + SumSquares(SubSeq(ws, 2, Len(ws)))

ScaledDeviations(vs) ==
    LET ws == [k \in 1..Len(vs) |-> vs[k] - vs[1]]
    IN  Len(vs) * SumSquares(ws) - SumSeq(ws) * SumSeq(ws)

\* std^2 * (N - 1) is the sum of squared deviations Q / N, granting the
\* rounding of f32 a 64th of it: std is read at twelve bits, mt * 2^-k, and
\* mt^2 * N * (N - 1) is compared with Q * 4^k.  A side too large for the
\* comparison is further than that from the other.
StdWithin(std, Q, N) ==
    IF std.m = 0 THEN Q = 0
    ELSE LET mt == std.m \div 4096
             E == std.e + 12
             A == mt * mt * N * (N - 1)
         IN  IF E >= 0
             THEN E <= 1 /\ Abs(A * Pow2(2 * E) - Q) <= Q \div 64
             ELSE LET k == 0 - E
                  IN  /\ k <= 15
                      /\ Q < Pow2(30 - 2 * k)
                      /\ Abs(A - Q * Pow2(2 * k)) <= (Q * Pow2(2 * k)) \div 64

\* C35: after N >= 2 updates the stored std of a dimension is the sample
\* standard deviation: std^2 * (N - 1) is the sum of the squared deviations of
\* the N values from their mean.
C35_WelfordStd ==
    engine.pc = "idle" /\ Len(engine.fed) >= 2 =>
        \A i \in DOMAIN engine.feature_stats.stds :
            StdWithin(engine.feature_stats.stds[i], ScaledDeviations(FedValues(i)),
                      Len(engine.fed))

\* ------------------------------------------------------------------ C36

\* A call of add_training_example.
TrainingStep == engine'.training_buffer # engine.training_buffer

\* The examples the call dropped from the front of the buffer.
Drained ==
    IF Len(engine.training_buffer) + 1 > TrainingCap THEN TrainingDrain ELSE 0

\* C36: the training buffer never holds more than 10,000 examples once
\* add_training_example has returned; an insertion that would make it 10,001
\* drops the 1,000 oldest, and what is left keeps the order of insertion, the
\* new example last.
C36_TrainingBufferBounded ==
    [][TrainingStep =>
          LET old == engine.training_buffer
              new == engine'.training_buffer
          IN  /\ Len(new) <= TrainingCap
              /\ Len(new) = Len(old) + 1 - Drained
              /\ \A i \in 1..(Len(new) - 1) : new[i] = old[i + Drained]
              /\ new[Len(new)].timestamp = old[Len(old)].timestamp + 1]_vars

\* The buffer after the insertion that found it full: 9,001 examples, the
\* oldest of them the 1,001st inserted.
C36_Witness ==
    /\ Len(engine.training_buffer) = TrainingCap + 1 - TrainingDrain
    /\ engine.training_buffer[1].timestamp = TrainingDrain + 1

\* ------------------------------------------------------------------ C37

\* C37: the cleanup task removes a flow only if the flow is expired when it is
\* removed: a flow whose last_seen an upsert refreshed after the scan is kept.
C37_RemovedWhenExpired ==
    [][\A k \in DOMAIN active_flows[1] \ DOMAIN active_flows'[1] :
          now - active_flows[1][k].last_seen > FlowTimeout]_vars

\* ------------------------------------------------------------------ C38

\* Every poll of the source and of the detection task of call g began with the
\* token cancelled: it ends the task at its first pending point.
LatePolls(g) ==
    /\ source[g].pc \notin {"none", "spawned", "done"} => source[g].late
    /\ detection[g].pc \notin {"none", "spawned", "done"} => detection[g].late

NewAnomalous(g) ==
    {i \in 1..Len(detection'[g].pending) :
        detection'[g].pending[i].threat_type = "Anomalous"}

Waiting(t) == InProgram(t) /\ NextOp(t).op = "acquire"

\* The tasks that keep t from the lock it is at: the holders in a mode that
\* excludes t's and, for a reader, the writers that wait for the same lock
\* (a lock that is fair to writers makes new readers wait behind them).
Blockers(t) ==
    LET l == NextOp(t).lock
        m == NextOp(t).mode
    IN  {h[1] : h \in {x \in locks.held[l] : m = "write" \/ x[2] = "write"}}
            \cup (IF m = "read"
                  THEN {u \in LockTasks \ {t} :
                           /\ Waiting(u)
                           /\ NextOp(u).lock = l
                           /\ NextOp(u).mode = "write"}
                  ELSE {})

\* Every task of S waits for a lock that a task of S keeps from it.
Deadlocked(S) ==
    /\ S # {}
    /\ \A t \in S : Waiting(t) /\ Blockers(t) \cap S # {}

\* C40: the locks of the pipeline never deadlock: no set of tasks (detection,
\* cleanup, source, sampler, a reader) ever waits in a circle for the stats
\* lock, the ring lock and the shard locks of the flow table.
C40_NoDeadlock == \A S \in SUBSET LockTasks : ~Deadlocked(S)

\* The longest wait there is: the cleanup waits to remove from a shard that the
\* detection task holds for reading, in its per-flow stage, while that task
\* waits to count an alert in SystemStats, which the source is writing.
C40_Witness ==
    /\ Waiting("reaper")
    /\ "detection" \in Blockers("reaper")
    /\ Waiting("detection")
    /\ "source" \in Blockers("detection")

====
